---- MODULE Spec2Model ----
(***************************************************************************)
(* Run orchestration core of skyvern/forge/sdk/routes/agent_protocol.py:   *)
(* the cancellation handlers cancel_workflow_run and cancel_task, run      *)
(* against a record store of workflow runs and tasks that the engine       *)
(* executors write to as well.                                             *)
(*                                                                         *)
(* Every handler is a coroutine: it suspends at each await, so each await  *)
(* is one step of the model and other requests and the executors may run   *)
(* between two steps.                                                      *)
(***************************************************************************)
EXTENDS Integers, Sequences, FiniteSets, TLC

(* ---------------------------- bounds ----------------------------------- *)
MaxRuns == 3        \* workflow run ids 1..MaxRuns
MaxCallers == 2     \* concurrent HTTP requests
MaxTasks == 2       \* task ids 1..MaxTasks
MaxTaskCalls == 2   \* cancel_task invocations in one behaviour
MaxDispatches == 2  \* dispatch requests in one behaviour
MaxEntries == 3     \* timeline entries recorded in one behaviour

RunIds == 1..MaxRuns
Callers == 1..MaxCallers
TaskIds == 1..MaxTasks
Orgs == {"o1", "o2"}

(* ---------------------------- data model ------------------------------- *)
Absent == "absent"          \* no record with this id
NoParent == 0               \* parent_workflow_run_id is None
NoRun == 0                  \* a caller that holds no workflow_run_id

NonTerminalStatuses == {"running", "created", "queued"}
TerminalStatuses == {"canceled", "completed", "failed", "terminated"}
WorkflowRunStatus == NonTerminalStatuses \cup TerminalStatuses
TaskStatus == NonTerminalStatuses \cup TerminalStatuses

VARIABLES
    wr_status,      \* workflow run id -> status, or Absent
    wr_parent,      \* workflow run id -> parent_workflow_run_id
    wr_org,         \* workflow run id -> organization_id
    pc,             \* caller -> position in cancel_workflow_run
    org,            \* caller -> current_org.organization_id
    target,         \* caller -> workflow_run_id
    workflow_run,   \* caller -> the record read at the start of the call
    child_workflow_runs, \* caller -> the child records read by the call
    idx,            \* caller -> position of the for loop in child_workflow_runs
    events,         \* caller -> status writes and webhook calls of the call
    response,       \* caller -> HTTP status of the call
    at_call,        \* caller -> wr_status when the call started
    task_status,    \* task id -> status, or Absent
    task_org,       \* task id -> organization_id
    task_steps,     \* task id -> TRUE when the task has a recorded step
    task_webhooks,  \* task id -> number of webhooks fired for the task
    tpc,            \* position in cancel_task
    torg,           \* current_org.organization_id of the cancel_task call
    ttarget,        \* task_id of the cancel_task call
    task,           \* the record returned by update_task
    latest_step,    \* the result of get_latest_step
    tevents,        \* status writes and webhook calls of the cancel_task call
    tresponse,      \* HTTP status of the cancel_task call
    task_at_call,   \* status of the task when the cancel_task call started
    tcalls,         \* number of cancel_task and retry_webhook calls started
    starts,         \* execution starts handed to the executor, in order
    d_pc,           \* position in the dispatch handler (run_task, run_task_v2)
    d_req,          \* the dispatch request
    d_gen,          \* task_generation of the v1 path, when it was made
    d_record,       \* the engine record created for the request
    d_events,       \* collaborator calls of the dispatch request, in order
    d_response,     \* HTTP status of the dispatch request
    d_body,         \* the Run returned: keyword -> value
    d_calls,        \* number of dispatch requests started
    tl_blocks,      \* workflow run id -> raw block timeline of the run
    tl_task_v2,     \* workflow run id -> TRUE when a task v2 record names it
    tl_thoughts,    \* workflow run id -> thought timeline of its task v2
    tl_entries,     \* number of timeline entries recorded
    tl_result,      \* what _flatten_workflow_run_timeline returned last
    tl_response,    \* HTTP status of the last get_workflow_run_timeline request
    fl_stack,       \* frames of _flatten_workflow_run_timeline, innermost last
    fl_status,      \* idle, running, returned or raised
    fl_calls,       \* number of calls of _flatten_workflow_run_timeline made
    fl_result,      \* the list the outermost call returned
    rw_pc,          \* position in run_workflow
    rw_req,         \* the run_workflow request
    rw_events,      \* collaborator calls of the run_workflow request, in order
    rw_response,    \* HTTP status of the run_workflow request
    rw_calls        \* number of run_workflow requests started

wr_vars == <<wr_status, wr_parent, wr_org>>
call_vars == <<pc, org, target, workflow_run, child_workflow_runs, idx,
               events, response, at_call>>
task_store_vars == <<task_status, task_org, task_steps, task_webhooks>>
task_call_vars == <<tpc, torg, ttarget, task, latest_step, tevents,
                    tresponse, task_at_call, tcalls>>
dispatch_vars == <<starts, d_pc, d_req, d_gen, d_record, d_events, d_response,
                   d_body, d_calls>>
timeline_vars == <<tl_blocks, tl_task_v2, tl_thoughts, tl_entries, tl_result>>
flatten_vars == <<fl_stack, fl_status, fl_calls, fl_result>>
run_workflow_vars == <<rw_pc, rw_req, rw_events, rw_response, rw_calls>>
more_vars == <<flatten_vars, run_workflow_vars>>
ext_vars == <<dispatch_vars, timeline_vars, tl_response, more_vars>>
vars == <<wr_vars, call_vars, task_store_vars, task_call_vars, ext_vars>>

NoRecord == [workflow_run_id |-> NoRun, status |-> Absent]

None == "None"                 \* Python None
NoRequest == [endpoint |-> None]
NoGeneration == [made |-> FALSE]
NoEngineRecord == [kind |-> None]
NoBody == [kind |-> None]
NoResult == [workflow_run_id |-> NoRun, timeline |-> <<>>]

\* no dispatch request has been made
InitDispatch ==
    /\ starts = <<>>
    /\ d_pc = "idle"
    /\ d_req = NoRequest
    /\ d_gen = NoGeneration
    /\ d_record = NoEngineRecord
    /\ d_events = <<>>
    /\ d_response = 0
    /\ d_body = NoBody
    /\ d_calls = 0

\* no block and no thought has been recorded
InitTimeline ==
    /\ tl_blocks = [r \in RunIds |-> <<>>]
    /\ tl_task_v2 = [r \in RunIds |-> FALSE]
    /\ tl_thoughts = [r \in RunIds |-> <<>>]
    /\ tl_entries = 0
    /\ tl_result = NoResult

\* no timeline is being flattened
InitFlatten ==
    /\ tl_response = 0
    /\ fl_stack = <<>>
    /\ fl_status = "idle"
    /\ fl_calls = 0
    /\ fl_result = <<>>

\* no run_workflow request has been made
InitRunWorkflow ==
    /\ rw_pc = "idle"
    /\ rw_req = NoRequest
    /\ rw_events = <<>>
    /\ rw_response = 0
    /\ rw_calls = 0

Init ==
    /\ wr_status = [r \in RunIds |-> Absent]
    /\ wr_parent = [r \in RunIds |-> NoParent]
    /\ wr_org = [r \in RunIds |-> "o1"]
    /\ pc = [c \in Callers |-> "idle"]
    /\ org = [c \in Callers |-> "o1"]
    /\ target = [c \in Callers |-> NoRun]
    /\ workflow_run = [c \in Callers |-> NoRecord]
    /\ child_workflow_runs = [c \in Callers |-> <<>>]
    /\ idx = [c \in Callers |-> 1]
    /\ events = [c \in Callers |-> <<>>]
    /\ response = [c \in Callers |-> 0]
    /\ at_call = [c \in Callers |-> [r \in RunIds |-> Absent]]
    /\ task_status = [t \in TaskIds |-> Absent]
    /\ task_org = [t \in TaskIds |-> "o1"]
    /\ task_steps = [t \in TaskIds |-> FALSE]
    /\ task_webhooks = [t \in TaskIds |-> 0]
    /\ tpc = "idle"
    /\ torg = "o1"
    /\ ttarget = 0
    /\ task = [task_id |-> 0, status |-> Absent]
    /\ latest_step = FALSE
    /\ tevents = <<>>
    /\ tresponse = 0
    /\ task_at_call = Absent
    /\ tcalls = 0
    /\ InitDispatch
    /\ InitTimeline
    /\ InitFlatten
    /\ InitRunWorkflow

(* ---------------------------- record store ----------------------------- *)
Existing(st) == {r \in RunIds : st[r] # Absent}

\* app.DATABASE.get_workflow_run(workflow_run_id, organization_id)
get_workflow_run(id, o) ==
    IF id \in RunIds /\ wr_status[id] # Absent /\ wr_org[id] = o
    THEN [workflow_run_id |-> id, status |-> wr_status[id]]
    ELSE NoRecord

\* the runs get_workflow_runs_by_parent_workflow_run_id selects
ChildIds(o, id) ==
    {r \in RunIds : wr_status[r] # Absent /\ wr_org[r] = o /\ wr_parent[r] = id}

\* the orders in which a query may return a set of records
Orderings(S) ==
    {s \in [1..Cardinality(S) -> S] : \A i, j \in 1..Cardinality(S) : s[i] = s[j] => i = j}

\* app.DATABASE.get_workflow_runs_by_parent_workflow_run_id(organization_id,
\* parent_workflow_run_id): the records of the direct children, as a list
get_workflow_runs_by_parent_workflow_run_id(o, id) ==
    {[i \in DOMAIN s |-> [workflow_run_id |-> s[i], status |-> wr_status[s[i]]]] :
        s \in Orderings(ChildIds(o, id))}

\* app.WORKFLOW_SERVICE.mark_workflow_run_as_canceled(workflow_run_id)
mark_workflow_run_as_canceled(st, id) == [st EXCEPT ![id] = "canceled"]

WriteEvent(id) == [kind |-> "write", id |-> id, status |-> "canceled"]
WebhookEvent(rec) == [kind |-> "webhook", id |-> rec.workflow_run_id, status |-> rec.status]

(* ---------------------------- engine executors ------------------------- *)
\* a workflow run is set up in status created; a nested run names an
\* existing run of the same organization as its parent
CreateWorkflowRun(r, p, o) ==
    /\ wr_status[r] = Absent
    /\ \A q \in RunIds : q < r => wr_status[q] # Absent
    /\ \/ p = NoParent
       \/ p \in RunIds /\ wr_status[p] # Absent /\ wr_org[p] = o
    /\ wr_status' = [wr_status EXCEPT ![r] = "created"]
    /\ wr_parent' = [wr_parent EXCEPT ![r] = p]
    /\ wr_org' = [wr_org EXCEPT ![r] = o]
    /\ UNCHANGED <<call_vars, task_store_vars, task_call_vars, ext_vars>>

\* the transitions an executor makes on a run it is executing
ExecutorNext(s) ==
    CASE s = "created" -> {"queued", "running"}
      [] s = "queued" -> {"running"}
      [] s = "running" -> {"completed", "failed", "terminated"}
      [] OTHER -> {}

ExecutorTransition(r, s) ==
    /\ wr_status[r] # Absent
    /\ s \in ExecutorNext(wr_status[r])
    /\ wr_status' = [wr_status EXCEPT ![r] = s]
    /\ UNCHANGED <<wr_parent, wr_org, call_vars, task_store_vars, task_call_vars, ext_vars>>

(* ---------------------------- cancel_workflow_run ---------------------- *)
\* mutant: the target is looked up by id alone, whatever its organization
CancelWorkflowRun_Start_AnyOrg(c, id, o) ==
    /\ pc[c] = "idle"
    /\ org' = [org EXCEPT ![c] = o]
    /\ target' = [target EXCEPT ![c] = id]
    /\ at_call' = [at_call EXCEPT ![c] = wr_status]
    /\ workflow_run' = [workflow_run EXCEPT ![c] = get_workflow_run(id, wr_org[id])]
    /\ IF get_workflow_run(id, wr_org[id]) = NoRecord
       THEN /\ response' = [response EXCEPT ![c] = 404]
            /\ pc' = [pc EXCEPT ![c] = "done"]
       ELSE /\ response' = response
            /\ pc' = [pc EXCEPT ![c] = "get_children"]
    /\ UNCHANGED <<wr_vars, child_workflow_runs, idx, events,
                   task_store_vars, task_call_vars, ext_vars>>

\* lines 289-302: read the target, 404 when it is not there
CancelWorkflowRun_Start(c, id, o) ==
    /\ pc[c] = "idle"
    /\ org' = [org EXCEPT ![c] = o]
    /\ target' = [target EXCEPT ![c] = id]
    /\ at_call' = [at_call EXCEPT ![c] = wr_status]
    /\ workflow_run' = [workflow_run EXCEPT ![c] = get_workflow_run(id, o)]
    /\ IF get_workflow_run(id, o) = NoRecord
       THEN /\ response' = [response EXCEPT ![c] = 404]
            /\ pc' = [pc EXCEPT ![c] = "done"]
       ELSE /\ response' = response
            /\ pc' = [pc EXCEPT ![c] = "get_children"]
    /\ UNCHANGED <<wr_vars, child_workflow_runs, idx, events,
                   task_store_vars, task_call_vars, ext_vars>>

\* the runs below id in the parent relation of the store
RECURSIVE DescendantIds(_, _, _)
DescendantIds(o, id, n) ==
    IF n = 0 THEN {}
    ELSE ChildIds(o, id) \cup
         UNION {DescendantIds(o, r, n - 1) : r \in ChildIds(o, id)}

\* mutant: the whole tree below the target is read, not the direct children
CancelWorkflowRun_GetChildren_Descendants(c) ==
    /\ pc[c] = "get_children"
    /\ \E s \in Orderings(DescendantIds(org[c], target[c], MaxRuns)) :
         child_workflow_runs' = [child_workflow_runs EXCEPT ![c] =
             [i \in DOMAIN s |-> [workflow_run_id |-> s[i], status |-> wr_status[s[i]]]]]
    /\ idx' = [idx EXCEPT ![c] = 1]
    /\ pc' = [pc EXCEPT ![c] = "loop"]
    /\ UNCHANGED <<wr_vars, org, target, workflow_run, events, response,
                   at_call, task_store_vars, task_call_vars, ext_vars>>

\* mutant: the target is marked canceled before the children are processed
CancelWorkflowRun_GetChildren_MarksTargetFirst(c) ==
    /\ pc[c] = "get_children"
    /\ \E l \in get_workflow_runs_by_parent_workflow_run_id(org[c], target[c]) :
         child_workflow_runs' = [child_workflow_runs EXCEPT ![c] = l]
    /\ wr_status' = mark_workflow_run_as_canceled(wr_status, target[c])
    /\ events' = [events EXCEPT ![c] = Append(@, WriteEvent(target[c]))]
    /\ idx' = [idx EXCEPT ![c] = 1]
    /\ pc' = [pc EXCEPT ![c] = "loop"]
    /\ UNCHANGED <<wr_parent, wr_org, org, target, workflow_run, response,
                   at_call, task_store_vars, task_call_vars, ext_vars>>

\* lines 303-307: read the direct children of the target
CancelWorkflowRun_GetChildren(c) ==
    /\ pc[c] = "get_children"
    /\ \E l \in get_workflow_runs_by_parent_workflow_run_id(org[c], target[c]) :
         child_workflow_runs' = [child_workflow_runs EXCEPT ![c] = l]
    /\ idx' = [idx EXCEPT ![c] = 1]
    /\ pc' = [pc EXCEPT ![c] = "loop"]
    /\ UNCHANGED <<wr_vars, org, target, workflow_run, events, response,
                   at_call, task_store_vars, task_call_vars, ext_vars>>

\* mutant: every child is marked canceled, terminal or not
CancelWorkflowRun_Loop_NoGuard(c) ==
    /\ pc[c] = "loop"
    /\ idx[c] <= Len(child_workflow_runs[c])
    /\ LET child_workflow_run == child_workflow_runs[c][idx[c]] IN
         /\ wr_status' = mark_workflow_run_as_canceled(
                             wr_status, child_workflow_run.workflow_run_id)
         /\ events' = [events EXCEPT ![c] =
                         Append(@, WriteEvent(child_workflow_run.workflow_run_id))]
    /\ idx' = [idx EXCEPT ![c] = @ + 1]
    /\ UNCHANGED <<wr_parent, wr_org, pc, org, target, workflow_run,
                   child_workflow_runs, response, at_call,
                   task_store_vars, task_call_vars, ext_vars>>

\* mutant: marking a child canceled cancels the children of the child too
CancelWorkflowRun_Loop_Cascading(c) ==
    /\ pc[c] = "loop"
    /\ idx[c] <= Len(child_workflow_runs[c])
    /\ LET child_workflow_run == child_workflow_runs[c][idx[c]] IN
         IF child_workflow_run.status \notin {"running", "created", "queued"}
         THEN UNCHANGED <<wr_status, events>>
         ELSE /\ wr_status' = [r \in RunIds |->
                    IF r = child_workflow_run.workflow_run_id
                       \/ (wr_parent[r] = child_workflow_run.workflow_run_id
                           /\ wr_status[r] \in {"running", "created", "queued"})
                    THEN "canceled" ELSE wr_status[r]]
              /\ events' = [events EXCEPT ![c] =
                              Append(@, WriteEvent(child_workflow_run.workflow_run_id))]
    /\ idx' = [idx EXCEPT ![c] = @ + 1]
    /\ UNCHANGED <<wr_parent, wr_org, pc, org, target, workflow_run,
                   child_workflow_runs, response, at_call,
                   task_store_vars, task_call_vars, ext_vars>>

\* lines 308-315: one iteration of the loop over the children read
CancelWorkflowRun_Loop(c) ==
    /\ pc[c] = "loop"
    /\ idx[c] <= Len(child_workflow_runs[c])
    /\ LET child_workflow_run == child_workflow_runs[c][idx[c]] IN
         IF child_workflow_run.status \notin {"running", "created", "queued"}
         THEN UNCHANGED <<wr_status, events>>
         ELSE /\ wr_status' = mark_workflow_run_as_canceled(
                                  wr_status, child_workflow_run.workflow_run_id)
              /\ events' = [events EXCEPT ![c] =
                              Append(@, WriteEvent(child_workflow_run.workflow_run_id))]
    /\ idx' = [idx EXCEPT ![c] = @ + 1]
    /\ UNCHANGED <<wr_parent, wr_org, pc, org, target, workflow_run,
                   child_workflow_runs, response, at_call,
                   task_store_vars, task_call_vars, ext_vars>>

\* mutant: when the write of a child raises, the children canceled so far
\* are put back to the statuses read
CancelWorkflowRun_LoopFails_RollsBack(c) ==
    /\ pc[c] = "loop"
    /\ idx[c] <= Len(child_workflow_runs[c])
    /\ child_workflow_runs[c][idx[c]].status \in {"running", "created", "queued"}
    /\ wr_status' = [r \in RunIds |->
          IF \E i \in 1..(idx[c] - 1) : child_workflow_runs[c][i].workflow_run_id = r
          THEN at_call[c][r] ELSE wr_status[r]]
    /\ response' = [response EXCEPT ![c] = 500]
    /\ pc' = [pc EXCEPT ![c] = "done"]
    /\ UNCHANGED <<wr_parent, wr_org, org, target, workflow_run, child_workflow_runs,
                   idx, events, at_call, task_store_vars, task_call_vars, ext_vars>>

\* line 315, mark_workflow_run_as_canceled raises for a child: nothing is
\* written, the exception leaves the handler and the request ends with a
\* server error
CancelWorkflowRun_LoopFails(c) ==
    /\ pc[c] = "loop"
    /\ idx[c] <= Len(child_workflow_runs[c])
    /\ child_workflow_runs[c][idx[c]].status \in {"running", "created", "queued"}
    /\ response' = [response EXCEPT ![c] = 500]
    /\ pc' = [pc EXCEPT ![c] = "done"]
    /\ UNCHANGED <<wr_vars, org, target, workflow_run, child_workflow_runs,
                   idx, events, at_call, task_store_vars, task_call_vars, ext_vars>>

\* mutant: the target is guarded like a child, a terminal target is skipped
CancelWorkflowRun_MarkTarget_Guarded(c) ==
    /\ pc[c] = "loop"
    /\ idx[c] > Len(child_workflow_runs[c])
    /\ IF workflow_run[c].status \notin {"running", "created", "queued"}
       THEN UNCHANGED <<wr_status, events>>
       ELSE /\ wr_status' = mark_workflow_run_as_canceled(wr_status, target[c])
            /\ events' = [events EXCEPT ![c] = Append(@, WriteEvent(target[c]))]
    /\ pc' = [pc EXCEPT ![c] = "webhook"]
    /\ UNCHANGED <<wr_parent, wr_org, org, target, workflow_run,
                   child_workflow_runs, idx, response, at_call,
                   task_store_vars, task_call_vars, ext_vars>>

\* mutant: the canceled target is also detached from its parent run
CancelWorkflowRun_MarkTarget_Detaches(c) ==
    /\ pc[c] = "loop"
    /\ idx[c] > Len(child_workflow_runs[c])
    /\ wr_status' = mark_workflow_run_as_canceled(wr_status, target[c])
    /\ wr_parent' = [wr_parent EXCEPT ![target[c]] = NoParent]
    /\ events' = [events EXCEPT ![c] = Append(@, WriteEvent(target[c]))]
    /\ pc' = [pc EXCEPT ![c] = "webhook"]
    /\ UNCHANGED <<wr_org, org, target, workflow_run,
                   child_workflow_runs, idx, response, at_call,
                   task_store_vars, task_call_vars, ext_vars>>

\* line 316: the target is marked canceled
CancelWorkflowRun_MarkTarget(c) ==
    /\ pc[c] = "loop"
    /\ idx[c] > Len(child_workflow_runs[c])
    /\ wr_status' = mark_workflow_run_as_canceled(wr_status, target[c])
    /\ events' = [events EXCEPT ![c] = Append(@, WriteEvent(target[c]))]
    /\ pc' = [pc EXCEPT ![c] = "webhook"]
    /\ UNCHANGED <<wr_parent, wr_org, org, target, workflow_run,
                   child_workflow_runs, idx, response, at_call,
                   task_store_vars, task_call_vars, ext_vars>>

\* mutant: no webhook for a target that was terminal when it was read
CancelWorkflowRun_Webhook_IfNotTerminal(c) ==
    /\ pc[c] = "webhook"
    /\ events' = [events EXCEPT ![c] =
                    IF workflow_run[c].status \in {"running", "created", "queued"}
                    THEN Append(@, WebhookEvent(workflow_run[c])) ELSE @]
    /\ response' = [response EXCEPT ![c] = 200]
    /\ pc' = [pc EXCEPT ![c] = "done"]
    /\ UNCHANGED <<wr_vars, org, target, workflow_run, child_workflow_runs,
                   idx, at_call, task_store_vars, task_call_vars, ext_vars>>

\* mutant: one webhook per run, a request skips it when another request
\* has notified the cancellation of the same run
CancelWorkflowRun_Webhook_OncePerRun(c) ==
    /\ pc[c] = "webhook"
    /\ events' = [events EXCEPT ![c] =
                    IF \E d \in Callers \ {c} :
                         /\ target[d] = target[c]
                         /\ \E i \in DOMAIN events[d] : events[d][i].kind = "webhook"
                    THEN @ ELSE Append(@, WebhookEvent(workflow_run[c]))]
    /\ response' = [response EXCEPT ![c] = 200]
    /\ pc' = [pc EXCEPT ![c] = "done"]
    /\ UNCHANGED <<wr_vars, org, target, workflow_run, child_workflow_runs,
                   idx, at_call, task_store_vars, task_call_vars, ext_vars>>

\* line 317: the webhook is executed with the record read at the start
CancelWorkflowRun_Webhook(c) ==
    /\ pc[c] = "webhook"
    /\ events' = [events EXCEPT ![c] = Append(@, WebhookEvent(workflow_run[c]))]
    /\ response' = [response EXCEPT ![c] = 200]
    /\ pc' = [pc EXCEPT ![c] = "done"]
    /\ UNCHANGED <<wr_vars, org, target, workflow_run, child_workflow_runs,
                   idx, at_call, task_store_vars, task_call_vars, ext_vars>>

\* the handler has returned and the request is over
CancelWorkflowRun_Return(c) ==
    /\ pc[c] = "done"
    /\ pc' = [pc EXCEPT ![c] = "idle"]
    /\ org' = [org EXCEPT ![c] = "o1"]
    /\ target' = [target EXCEPT ![c] = NoRun]
    /\ workflow_run' = [workflow_run EXCEPT ![c] = NoRecord]
    /\ child_workflow_runs' = [child_workflow_runs EXCEPT ![c] = <<>>]
    /\ idx' = [idx EXCEPT ![c] = 1]
    /\ events' = [events EXCEPT ![c] = <<>>]
    /\ response' = [response EXCEPT ![c] = 0]
    /\ at_call' = [at_call EXCEPT ![c] = [r \in RunIds |-> Absent]]
    /\ UNCHANGED <<wr_vars, task_store_vars, task_call_vars, ext_vars>>

AllIdle == \A c \in Callers : pc[c] = "idle"

(* concurrent requests and executors *)
Next ==
    \/ \E r \in RunIds, p \in RunIds \cup {NoParent}, o \in Orgs : CreateWorkflowRun(r, p, o)
    \/ \E r \in RunIds, s \in WorkflowRunStatus : ExecutorTransition(r, s)
    \/ \E c \in Callers, id \in RunIds, o \in Orgs : CancelWorkflowRun_Start(c, id, o)
    \/ \E c \in Callers : CancelWorkflowRun_GetChildren(c)
    \/ \E c \in Callers : CancelWorkflowRun_Loop(c)
    \/ \E c \in Callers : CancelWorkflowRun_MarkTarget(c)
    \/ \E c \in Callers : CancelWorkflowRun_Webhook(c)
    \/ \E c \in Callers : CancelWorkflowRun_Return(c)

Spec == Init /\ [][Next]_vars

(* one request at a time, and no executor writes while it runs *)
NextSeq ==
    \/ AllIdle /\ \E r \in RunIds, p \in RunIds \cup {NoParent}, o \in Orgs : CreateWorkflowRun(r, p, o)
    \/ AllIdle /\ \E r \in RunIds, s \in WorkflowRunStatus : ExecutorTransition(r, s)
    \/ AllIdle /\ \E id \in RunIds, o \in Orgs : CancelWorkflowRun_Start(1, id, o)
    \/ CancelWorkflowRun_GetChildren(1)
    \/ CancelWorkflowRun_Loop(1)
    \/ CancelWorkflowRun_MarkTarget(1)
    \/ CancelWorkflowRun_Webhook(1)
    \/ CancelWorkflowRun_Return(1)

SpecSeq == Init /\ [][NextSeq]_vars

(* ---------------------------- tasks ------------------------------------ *)
NoTask == [task_id |-> 0, status |-> Absent]

\* app.DATABASE.get_task(task_id, organization_id)
get_task(id, o) ==
    IF id \in TaskIds /\ task_status[id] # Absent /\ task_org[id] = o
    THEN [task_id |-> id, status |-> task_status[id]]
    ELSE NoTask

\* app.agent.update_task(task, status): writes the status, returns the record
update_task(st, id, s) == [st EXCEPT ![id] = s]

TaskWriteEvent(id, s) == [kind |-> "write", id |-> id, status |-> s, last_step |-> FALSE]
TaskWebhookEvent(rec, step) ==
    [kind |-> "webhook", id |-> rec.task_id, status |-> rec.status, last_step |-> step]

\* a task is created in status created
CreateTask(t, o) ==
    /\ task_status[t] = Absent
    /\ \A q \in TaskIds : q < t => task_status[q] # Absent
    /\ task_status' = [task_status EXCEPT ![t] = "created"]
    /\ task_org' = [task_org EXCEPT ![t] = o]
    /\ UNCHANGED <<task_steps, task_webhooks, task_call_vars, wr_vars, call_vars, ext_vars>>

TaskExecutorTransition(t, s) ==
    /\ task_status[t] # Absent
    /\ s \in ExecutorNext(task_status[t])
    /\ task_status' = [task_status EXCEPT ![t] = s]
    /\ UNCHANGED <<task_org, task_steps, task_webhooks, task_call_vars, wr_vars, call_vars, ext_vars>>

\* the executor records the first step of a running task
RecordStep(t) ==
    /\ task_status[t] = "running"
    /\ ~task_steps[t]
    /\ task_steps' = [task_steps EXCEPT ![t] = TRUE]
    /\ UNCHANGED <<task_status, task_org, task_webhooks, task_call_vars, wr_vars, call_vars, ext_vars>>

(* ---------------------------- cancel_task ------------------------------ *)
\* lines 261-272: read the task, 404 when it is not there
CancelTask_Start(id, o) ==
    /\ tpc = "idle"
    /\ tcalls < MaxTaskCalls
    /\ tcalls' = tcalls + 1
    /\ torg' = o
    /\ ttarget' = id
    /\ task_at_call' = IF id \in TaskIds THEN task_status[id] ELSE Absent
    /\ IF get_task(id, o) = NoTask
       THEN /\ tresponse' = 404
            /\ tpc' = "done"
       ELSE /\ tresponse' = tresponse
            /\ tpc' = "update_task"
    /\ UNCHANGED <<task, latest_step, tevents, task_store_vars, wr_vars, call_vars, ext_vars>>

\* line 273: the status is written, with no look at the status read
CancelTask_UpdateTask ==
    /\ tpc = "update_task"
    /\ task_status' = update_task(task_status, ttarget, "canceled")
    /\ task' = [task_id |-> ttarget, status |-> "canceled"]
    /\ tevents' = Append(tevents, TaskWriteEvent(ttarget, "canceled"))
    /\ tpc' = "get_latest_step"
    /\ UNCHANGED <<task_org, task_steps, task_webhooks, torg, ttarget,
                   latest_step, tresponse, task_at_call, tcalls, wr_vars, call_vars, ext_vars>>

\* line 275: the latest step, None when the task has none
CancelTask_GetLatestStep ==
    /\ tpc = "get_latest_step"
    /\ latest_step' = task_steps[ttarget]
    /\ tpc' = "webhook"
    /\ UNCHANGED <<task_store_vars, torg, ttarget, task, tevents, tresponse,
                   task_at_call, tcalls, wr_vars, call_vars, ext_vars>>

\* mutant: the webhook is skipped when the task has no step, as in retry_webhook
CancelTask_Webhook_NeedsStep ==
    /\ tpc = "webhook"
    /\ IF latest_step
       THEN /\ tevents' = Append(tevents, TaskWebhookEvent(task, latest_step))
            /\ task_webhooks' = [task_webhooks EXCEPT ![ttarget] = @ + 1]
       ELSE UNCHANGED <<tevents, task_webhooks>>
    /\ tresponse' = 200
    /\ tpc' = "done"
    /\ UNCHANGED <<task_status, task_org, task_steps, torg, ttarget, task,
                   latest_step, task_at_call, tcalls, wr_vars, call_vars, ext_vars>>

\* line 277: the webhook is executed with the updated task
CancelTask_Webhook ==
    /\ tpc = "webhook"
    /\ tevents' = Append(tevents, TaskWebhookEvent(task, latest_step))
    /\ task_webhooks' = [task_webhooks EXCEPT ![ttarget] = @ + 1]
    /\ tresponse' = 200
    /\ tpc' = "done"
    /\ UNCHANGED <<task_status, task_org, task_steps, torg, ttarget, task,
                   latest_step, task_at_call, tcalls, wr_vars, call_vars, ext_vars>>

\* the handler has returned and the request is over
CancelTask_Return ==
    /\ tpc = "done"
    /\ tpc' = "idle"
    /\ torg' = "o1"
    /\ ttarget' = 0
    /\ task' = NoTask
    /\ latest_step' = FALSE
    /\ tevents' = <<>>
    /\ tresponse' = 0
    /\ task_at_call' = Absent
    /\ UNCHANGED <<task_store_vars, tcalls, wr_vars, call_vars, ext_vars>>

(* cancel_task requests, one at a time, with the executor running *)
NextTask ==
    \/ \E t \in TaskIds, o \in Orgs : CreateTask(t, o)
    \/ \E t \in TaskIds, s \in TaskStatus : TaskExecutorTransition(t, s)
    \/ \E t \in TaskIds : RecordStep(t)
    \/ \E id \in TaskIds, o \in Orgs : CancelTask_Start(id, o)
    \/ CancelTask_UpdateTask
    \/ CancelTask_GetLatestStep
    \/ CancelTask_Webhook
    \/ CancelTask_Return

SpecTask == Init /\ [][NextTask]_vars

(* ---------------------------- retry_webhook ---------------------------- *)
\* lines 334-345: read the task, 404 when it is not there
RetryWebhook_Start(id, o) ==
    /\ tpc = "idle"
    /\ tcalls < MaxTaskCalls
    /\ tcalls' = tcalls + 1
    /\ torg' = o
    /\ ttarget' = id
    /\ task_at_call' = IF id \in TaskIds THEN task_status[id] ELSE Absent
    /\ task' = get_task(id, o)
    /\ IF get_task(id, o) = NoTask
       THEN /\ tresponse' = 404
            /\ tpc' = "done"
       ELSE /\ tresponse' = tresponse
            /\ tpc' = "rw_get_latest_step"
    /\ UNCHANGED <<latest_step, tevents, task_store_vars, wr_vars, call_vars, ext_vars>>

\* lines 347-350: the latest step; with none the task response is returned
\* at once and the webhook is not executed
RetryWebhook_GetLatestStep ==
    /\ tpc = "rw_get_latest_step"
    /\ latest_step' = task_steps[ttarget]
    /\ IF ~task_steps[ttarget]
       THEN /\ tresponse' = 200
            /\ tpc' = "done"
       ELSE /\ tresponse' = tresponse
            /\ tpc' = "rw_webhook"
    /\ UNCHANGED <<task_store_vars, torg, ttarget, task, tevents,
                   task_at_call, tcalls, wr_vars, call_vars, ext_vars>>

\* lines 352-355: the webhook is executed with the task read, then the
\* task response is returned
RetryWebhook_Webhook ==
    /\ tpc = "rw_webhook"
    /\ tevents' = Append(tevents, TaskWebhookEvent(task, latest_step))
    /\ task_webhooks' = [task_webhooks EXCEPT ![ttarget] = @ + 1]
    /\ tresponse' = 200
    /\ tpc' = "done"
    /\ UNCHANGED <<task_status, task_org, task_steps, torg, ttarget, task,
                   latest_step, task_at_call, tcalls, wr_vars, call_vars, ext_vars>>

\* the handler has returned and the request is over
RetryWebhook_Return ==
    /\ tpc = "done"
    /\ tpc' = "idle"
    /\ torg' = "o1"
    /\ ttarget' = 0
    /\ task' = NoTask
    /\ latest_step' = FALSE
    /\ tevents' = <<>>
    /\ tresponse' = 0
    /\ task_at_call' = Absent
    /\ UNCHANGED <<task_store_vars, tcalls, wr_vars, call_vars, ext_vars>>

(* retry_webhook requests, one at a time, with the executor running *)
NextRetry ==
    \/ \E t \in TaskIds, o \in Orgs : CreateTask(t, o)
    \/ \E t \in TaskIds, s \in TaskStatus : TaskExecutorTransition(t, s)
    \/ \E t \in TaskIds : RecordStep(t)
    \/ \E id \in TaskIds, o \in Orgs : RetryWebhook_Start(id, o)
    \/ RetryWebhook_GetLatestStep
    \/ RetryWebhook_Webhook
    \/ RetryWebhook_Return

SpecRetry == Init /\ [][NextRetry]_vars

(* ---------------------------- webhook failure -------------------------- *)
\* mutant: a failed webhook puts back the statuses the call has overwritten
CancelWorkflowRun_WebhookFails_RollsBack(c) ==
    /\ pc[c] = "webhook"
    /\ events' = [events EXCEPT ![c] = Append(@, WebhookEvent(workflow_run[c]))]
    /\ wr_status' = at_call[c]
    /\ response' = [response EXCEPT ![c] = 500]
    /\ pc' = [pc EXCEPT ![c] = "done"]
    /\ UNCHANGED <<wr_parent, wr_org, org, target, workflow_run, child_workflow_runs,
                   idx, at_call, task_store_vars, task_call_vars, ext_vars>>

\* line 317, execute_workflow_webhook raises: nothing in the handler catches
\* it, the request ends with a server error after this one attempt
CancelWorkflowRun_WebhookFails(c) ==
    /\ pc[c] = "webhook"
    /\ events' = [events EXCEPT ![c] = Append(@, WebhookEvent(workflow_run[c]))]
    /\ response' = [response EXCEPT ![c] = 500]
    /\ pc' = [pc EXCEPT ![c] = "done"]
    /\ UNCHANGED <<wr_vars, org, target, workflow_run, child_workflow_runs,
                   idx, at_call, task_store_vars, task_call_vars, ext_vars>>

\* line 277, execute_task_webhook raises: the request ends with a server
\* error after this one attempt
CancelTask_WebhookFails ==
    /\ tpc = "webhook"
    /\ tevents' = Append(tevents, TaskWebhookEvent(task, latest_step))
    /\ tresponse' = 500
    /\ tpc' = "done"
    /\ UNCHANGED <<task_store_vars, torg, ttarget, task, latest_step,
                   task_at_call, tcalls, wr_vars, call_vars, ext_vars>>

NoTaskActivity ==
    tpc = "idle" /\ tcalls = 0 /\ \A t \in TaskIds : task_status[t] = Absent
NoRunActivity == AllIdle /\ \A r \in RunIds : wr_status[r] = Absent

(* the two cancel handlers with webhooks that may fail, one request at a
   time, in one organization; the handlers share no state, a behaviour
   works on the workflow runs or on the tasks *)
NextFail ==
    \/ NoTaskActivity /\ AllIdle
          /\ \E r \in RunIds, p \in RunIds \cup {NoParent} : CreateWorkflowRun(r, p, "o1")
    \/ NoTaskActivity /\ AllIdle
          /\ \E r \in RunIds, s \in WorkflowRunStatus : ExecutorTransition(r, s)
    \/ NoTaskActivity /\ AllIdle
          /\ \E id \in RunIds : CancelWorkflowRun_Start(1, id, "o1")
    \/ CancelWorkflowRun_GetChildren(1)
    \/ CancelWorkflowRun_Loop(1)
    \/ CancelWorkflowRun_MarkTarget(1)
    \/ CancelWorkflowRun_Webhook(1)
    \/ CancelWorkflowRun_WebhookFails(1)
    \/ CancelWorkflowRun_Return(1)
    \/ NoRunActivity /\ \E t \in TaskIds : CreateTask(t, "o1")
    \/ \E t \in TaskIds, s \in TaskStatus : TaskExecutorTransition(t, s)
    \/ \E t \in TaskIds : RecordStep(t)
    \/ NoRunActivity /\ \E id \in TaskIds : CancelTask_Start(id, "o1")
    \/ CancelTask_UpdateTask
    \/ CancelTask_GetLatestStep
    \/ CancelTask_Webhook
    \/ CancelTask_WebhookFails
    \/ CancelTask_Return

SpecFail == Init /\ [][NextFail]_vars

(* ---------------------------- dispatch: values ------------------------- *)
\* RunEngine, and an engine value that is not one of its members
RunEngine == {"skyvern-1.0", "skyvern-2.0"}
EngineValues == RunEngine \cup {"skyvern-9.9"}

\* Python truth value of the values a request carries: None, 0, the empty
\* string and the empty dict are false
Truthy(v) == v \notin {None, "0", "", "{}"}

\* Python `a or b`
Or(a, b) == IF Truthy(a) THEN a ELSE b

\* str(status) of a status enum member
Str(status) == status

\* the request bodies of POST /tasks (run_task)
TaskRunRequests ==
    [endpoint : {"run_task"},
     engine : EngineValues,
     url : {None, "u_req"},
     goal : {"g_req"},
     data_extraction_schema : {None, "{}", "s_req"},
     max_steps : {None, "5"},
     title : {"t_req"},
     x_max_iterations_override : {None},
     x_max_steps_override : {None}]

\* the values of an override header: absent, an integer, a string
OverrideValues == {None, "0", "3", "5", "abc"}

\* the requests of POST /tasks of the v2 router (run_task_v2)
TaskV2Requests ==
    [endpoint : {"run_task_v2"},
     engine : {"skyvern-2.0"},
     url : {None, "u_req"},
     goal : {"g_req"},
     data_extraction_schema : {None},
     max_steps : {None},
     title : {None},
     x_max_iterations_override : OverrideValues,
     x_max_steps_override : OverrideValues]

\* what task_v1_service.generate_task may return
TaskGenerations ==
    [made : {TRUE},
     url : {"u_gen"},
     navigation_goal : {None, "g_gen"},
     navigation_payload : {"p_gen"},
     data_extraction_goal : {"dg_gen"},
     extracted_information_schema : {None, "s_gen"}]

\* TaskRunRequest validation: the engine must be a member of RunEngine
ValidRunRequest(req) == req.engine \in RunEngine

DispatchEvent(call, id, arg) == [call |-> call, run_id |-> id, arg |-> arg]
StartOf(kind, id, max_steps) == [kind |-> kind, run_id |-> id, max_steps_override |-> max_steps]

\* the locals of the v1 branch after lines 1522-1536
V1Locals(req, gen) ==
    IF ~Truthy(req.url)
    THEN [url |-> gen.url,
          navigation_goal |-> Or(gen.navigation_goal, req.goal),
          navigation_payload |-> gen.navigation_payload,
          data_extraction_goal |-> gen.data_extraction_goal,
          data_extraction_schema |->
              Or(req.data_extraction_schema, gen.extracted_information_schema)]
    ELSE [url |-> req.url,
          navigation_goal |-> req.goal,
          navigation_payload |-> None,
          data_extraction_goal |-> None,
          data_extraction_schema |-> req.data_extraction_schema]

\* the TaskRequest of lines 1538-1548
TaskRequestOf(req, gen) ==
    [title |-> req.title,
     url |-> V1Locals(req, gen).url,
     navigation_goal |-> V1Locals(req, gen).navigation_goal,
     navigation_payload |-> V1Locals(req, gen).navigation_payload,
     data_extraction_goal |-> V1Locals(req, gen).data_extraction_goal,
     extracted_information_schema |-> V1Locals(req, gen).data_extraction_schema,
     error_code_mapping |-> "ecm_req",
     proxy_location |-> "px_req"]

\* the task task_v1_service.run_task creates for a TaskRequest
TaskOf(id, treq, max_steps) ==
    [kind |-> "task_v1",
     task_id |-> id,
     title |-> treq.title,
     status |-> "created",
     created_at |-> "ts_created",
     modified_at |-> "ts_modified",
     navigation_goal |-> treq.navigation_goal,
     url |-> treq.url,
     extracted_information |-> None,
     failure_reason |-> None,
     extracted_information_schema |-> treq.extracted_information_schema,
     error_code_mapping |-> treq.error_code_mapping,
     proxy_location |-> treq.proxy_location,
     totp_identifier |-> None,
     totp_verification_url |-> None,
     webhook_callback_url |-> None,
     max_steps_per_run |-> max_steps]

\* the task v2 initialize_task_v2 creates; with no user_url the url is one
\* the reasoning provider came up with
TaskV2Of(id, req, llm_url) ==
    [kind |-> "task_v2",
     observer_cruise_id |-> id,
     status |-> "created",
     prompt |-> req.goal,
     url |-> IF Truthy(req.url) THEN req.url ELSE llm_url,
     output |-> None,
     failure_reason |-> None,
     webhook_callback_url |-> "wh_req",
     totp_identifier |-> "ti_req",
     totp_verification_url |-> "tu_req",
     proxy_location |-> "px_req",
     error_code_mapping |-> "ecm_req",
     extracted_information_schema |-> req.data_extraction_schema,
     created_at |-> "ts_created",
     modified_at |-> "ts_modified"]

\* the keyword arguments of TaskRunResponse on lines 1558-1576
V1Response(t) ==
    [kind |-> "TaskRunResponse",
     run_id |-> t.task_id,
     title |-> t.title,
     status |-> Str(t.status),
     created_at |-> t.created_at,
     updated_at |-> t.modified_at,
     engine |-> "skyvern-1.0",
     goal |-> t.navigation_goal,
     url |-> t.url,
     output |-> t.extracted_information,
     failure_reason |-> t.failure_reason,
     data_extraction_schema |-> t.extracted_information_schema,
     error_code_mapping |-> t.error_code_mapping,
     proxy_location |-> t.proxy_location,
     totp_identifier |-> t.totp_identifier,
     totp_url |-> t.totp_verification_url,
     webhook_url |-> t.webhook_callback_url,
     max_steps |-> t.max_steps_per_run]

\* the keyword arguments of TaskRunResponse on lines 1606-1623
V2Response(req, t) ==
    [kind |-> "TaskRunResponse",
     run_id |-> t.observer_cruise_id,
     title |-> req.title,
     status |-> Str(t.status),
     engine |-> "skyvern-2.0",
     goal |-> t.prompt,
     url |-> t.url,
     output |-> t.output,
     failure_reason |-> t.failure_reason,
     webhook_url |-> t.webhook_callback_url,
     totp_identifier |-> t.totp_identifier,
     totp_url |-> t.totp_verification_url,
     proxy_location |-> t.proxy_location,
     error_code_mapping |-> t.error_code_mapping,
     data_extraction_schema |-> t.extracted_information_schema,
     created_at |-> t.created_at,
     modified_at |-> t.modified_at]

(* ---------------------------- dispatch: run_task ----------------------- *)
\* a failed request: the exception becomes the response, nothing is returned
DispatchFails(code) ==
    /\ d_pc' = "done"
    /\ d_response' = code
    /\ d_body' = NoBody

\* mutant: the body is not validated and every engine other than v1 is
\* handled as v2
RunTask_Start_NoValidation(req, permitted) ==
    /\ d_pc \in {"idle", "done"}
    /\ d_calls < MaxDispatches
    /\ d_calls' = d_calls + 1
    /\ d_req' = req
    /\ d_gen' = NoGeneration
    /\ d_record' = NoEngineRecord
    /\ d_events' = <<>>
    /\ IF ~permitted
       THEN DispatchFails(403)
       ELSE /\ d_pc' = IF req.engine = "skyvern-1.0"
                       THEN IF ~Truthy(req.url) THEN "v1_generate" ELSE "v1_run"
                       ELSE "v2_initialize"
            /\ d_response' = 0
            /\ d_body' = NoBody
    /\ UNCHANGED <<starts, wr_vars, call_vars, task_store_vars, task_call_vars, timeline_vars, tl_response, more_vars>>

\* POST /tasks arrives; the body is validated, the permission check runs,
\* and the handler branches on the engine (lines 1509-1527, 1577)
RunTask_Start(req, permitted) ==
    /\ d_pc \in {"idle", "done"}
    /\ d_calls < MaxDispatches
    /\ d_calls' = d_calls + 1
    /\ d_req' = req
    /\ d_gen' = NoGeneration
    /\ d_record' = NoEngineRecord
    /\ d_events' = <<>>
    /\ IF ~ValidRunRequest(req)
       THEN DispatchFails(422)
       ELSE IF ~permitted
       THEN DispatchFails(403)
       ELSE /\ d_pc' = IF req.engine = "skyvern-1.0"
                       THEN IF ~Truthy(req.url) THEN "v1_generate" ELSE "v1_run"
                       ELSE "v2_initialize"
            /\ d_response' = 0
            /\ d_body' = NoBody
    /\ UNCHANGED <<starts, wr_vars, call_vars, task_store_vars, task_call_vars, timeline_vars, tl_response, more_vars>>

\* task_v1_service.generate_task returns (lines 1528-1536)
RunTask_GenerateTask(gen) ==
    /\ d_pc = "v1_generate"
    /\ d_gen' = gen
    /\ d_events' = Append(d_events, DispatchEvent("generate_task", 0, d_req.goal))
    /\ d_pc' = "v1_run"
    /\ UNCHANGED <<starts, d_req, d_record, d_response, d_body, d_calls>>
    /\ UNCHANGED <<wr_vars, call_vars, task_store_vars, task_call_vars, timeline_vars, tl_response, more_vars>>

\* task_v1_service.generate_task raises (line 1528)
RunTask_GenerateTaskFails ==
    /\ d_pc = "v1_generate"
    /\ d_events' = Append(d_events, DispatchEvent("generate_task", 0, d_req.goal))
    /\ DispatchFails(500)
    /\ UNCHANGED <<starts, d_req, d_gen, d_record, d_calls>>
    /\ UNCHANGED <<wr_vars, call_vars, task_store_vars, task_call_vars, timeline_vars, tl_response, more_vars>>

\* task_v1_service.run_task creates the task and enqueues its execution;
\* the handler returns the TaskRunResponse (lines 1538-1576)
RunTask_V1Run ==
    /\ d_pc = "v1_run"
    /\ LET t == TaskOf(d_calls, TaskRequestOf(d_req, d_gen), d_req.max_steps)
       IN /\ d_record' = t
          /\ d_events' = d_events \o <<DispatchEvent("create_task", t.task_id, t.url),
                                       DispatchEvent("enqueue", t.task_id, t.max_steps_per_run)>>
          /\ starts' = Append(starts, StartOf("task_v1", t.task_id, t.max_steps_per_run))
          /\ d_body' = V1Response(t)
    /\ d_response' = 200
    /\ d_pc' = "done"
    /\ UNCHANGED <<d_req, d_gen, d_calls>>
    /\ UNCHANGED <<wr_vars, call_vars, task_store_vars, task_call_vars, timeline_vars, tl_response, more_vars>>

\* task_v2_service.initialize_task_v2 returns the task v2 (lines 1579-1592)
RunTask_V2Initialize(llm_url) ==
    /\ d_pc = "v2_initialize"
    /\ d_record' = TaskV2Of(d_calls, d_req, llm_url)
    /\ d_events' = Append(d_events, DispatchEvent("initialize_task_v2", d_calls, d_req.goal))
    /\ d_pc' = "v2_execute"
    /\ UNCHANGED <<starts, d_req, d_gen, d_response, d_body, d_calls>>
    /\ UNCHANGED <<wr_vars, call_vars, task_store_vars, task_call_vars, timeline_vars, tl_response, more_vars>>

\* mutant: the LLMProviderError is logged and swallowed, the handler goes
\* on to start the execution of a task v2 that was never initialized
RunTask_V2InitializeFails_Swallowed ==
    /\ d_pc = "v2_initialize"
    /\ d_events' = Append(d_events, DispatchEvent("initialize_task_v2", 0, "LLMProviderError"))
    /\ d_record' = TaskV2Of(d_calls, d_req, None)
    /\ d_pc' = "v2_execute"
    /\ UNCHANGED <<starts, d_req, d_gen, d_response, d_body, d_calls>>
    /\ UNCHANGED <<wr_vars, call_vars, task_store_vars, task_call_vars, timeline_vars, tl_response, more_vars>>

\* initialize_task_v2 raises LLMProviderError (lines 1593-1597)
RunTask_V2InitializeFails ==
    /\ d_pc = "v2_initialize"
    /\ d_events' = Append(d_events, DispatchEvent("initialize_task_v2", 0, "LLMProviderError"))
    /\ DispatchFails(500)
    /\ UNCHANGED <<starts, d_req, d_gen, d_record, d_calls>>
    /\ UNCHANGED <<wr_vars, call_vars, task_store_vars, task_call_vars, timeline_vars, tl_response, more_vars>>

\* mutant: the handler returns the run without handing it to the executor
RunTask_V2Execute_NoStart ==
    /\ d_pc = "v2_execute"
    /\ d_body' = V2Response(d_req, d_record)
    /\ d_response' = 200
    /\ d_pc' = "done"
    /\ UNCHANGED <<starts, d_events, d_req, d_gen, d_record, d_calls>>
    /\ UNCHANGED <<wr_vars, call_vars, task_store_vars, task_call_vars, timeline_vars, tl_response, more_vars>>

\* execute_task_v2 enqueues the execution; the handler returns the
\* TaskRunResponse (lines 1598-1623)
RunTask_V2Execute ==
    /\ d_pc = "v2_execute"
    /\ d_events' = Append(d_events,
                          DispatchEvent("enqueue", d_record.observer_cruise_id, d_req.max_steps))
    /\ starts' = Append(starts, StartOf("task_v2", d_record.observer_cruise_id, d_req.max_steps))
    /\ d_body' = V2Response(d_req, d_record)
    /\ d_response' = 200
    /\ d_pc' = "done"
    /\ UNCHANGED <<d_req, d_gen, d_record, d_calls>>
    /\ UNCHANGED <<wr_vars, call_vars, task_store_vars, task_call_vars, timeline_vars, tl_response, more_vars>>

\* the background task queue hands the oldest start to the executor
ExecuteStart ==
    /\ starts # <<>>
    /\ starts' = Tail(starts)
    /\ UNCHANGED <<d_pc, d_req, d_gen, d_record, d_events, d_response, d_body, d_calls>>
    /\ UNCHANGED <<wr_vars, call_vars, task_store_vars, task_call_vars, timeline_vars, tl_response, more_vars>>

(* ---------------------------- dispatch: run_task_v2 -------------------- *)
\* POST /tasks of the v2 router arrives; the overrides are logged when one
\* of them is truthy, then the permission check runs (lines 1286-1300)
RunTaskV2_Start(req, permitted) ==
    /\ d_pc \in {"idle", "done"}
    /\ d_calls < MaxDispatches
    /\ d_calls' = d_calls + 1
    /\ d_req' = req
    /\ d_gen' = NoGeneration
    /\ d_record' = NoEngineRecord
    /\ d_events' = IF Truthy(req.x_max_iterations_override) \/ Truthy(req.x_max_steps_override)
                   THEN <<DispatchEvent("log_override", 0, req.x_max_steps_override)>>
                   ELSE <<>>
    /\ IF ~permitted
       THEN DispatchFails(403)
       ELSE /\ d_pc' = "t2_initialize"
            /\ d_response' = 0
            /\ d_body' = NoBody
    /\ UNCHANGED <<starts, wr_vars, call_vars, task_store_vars, task_call_vars, timeline_vars, tl_response, more_vars>>

\* task_v2_service.initialize_task_v2 returns the task v2 (lines 1302-1315)
RunTaskV2_Initialize(llm_url) ==
    /\ d_pc = "t2_initialize"
    /\ d_record' = TaskV2Of(d_calls, d_req, llm_url)
    /\ d_events' = Append(d_events, DispatchEvent("initialize_task_v2", d_calls, d_req.goal))
    /\ d_pc' = "t2_execute"
    /\ UNCHANGED <<starts, d_req, d_gen, d_response, d_body, d_calls>>
    /\ UNCHANGED <<wr_vars, call_vars, task_store_vars, task_call_vars, timeline_vars, tl_response, more_vars>>

\* initialize_task_v2 raises LLMProviderError (lines 1316-1320)
RunTaskV2_InitializeFails ==
    /\ d_pc = "t2_initialize"
    /\ d_events' = Append(d_events, DispatchEvent("initialize_task_v2", 0, "LLMProviderError"))
    /\ DispatchFails(500)
    /\ UNCHANGED <<starts, d_req, d_gen, d_record, d_calls>>
    /\ UNCHANGED <<wr_vars, call_vars, task_store_vars, task_call_vars, timeline_vars, tl_response, more_vars>>

\* mutant: the two overrides are coalesced in the other order
RunTaskV2_Execute_IterationsFirst ==
    /\ d_pc = "t2_execute"
    /\ LET max_steps_override == Or(d_req.x_max_iterations_override, d_req.x_max_steps_override)
       IN /\ d_events' = Append(d_events,
                 DispatchEvent("enqueue", d_record.observer_cruise_id, max_steps_override))
          /\ starts' = Append(starts,
                 StartOf("task_v2", d_record.observer_cruise_id, max_steps_override))
    /\ d_body' = d_record
    /\ d_response' = 200
    /\ d_pc' = "done"
    /\ UNCHANGED <<d_req, d_gen, d_record, d_calls>>
    /\ UNCHANGED <<wr_vars, call_vars, task_store_vars, task_call_vars, timeline_vars, tl_response, more_vars>>

\* execute_task_v2 enqueues the execution with the coalesced override; the
\* handler returns the dumped task v2 (lines 1321-1330)
RunTaskV2_Execute ==
    /\ d_pc = "t2_execute"
    /\ LET max_steps_override == Or(d_req.x_max_steps_override, d_req.x_max_iterations_override)
       IN /\ d_events' = Append(d_events,
                 DispatchEvent("enqueue", d_record.observer_cruise_id, max_steps_override))
          /\ starts' = Append(starts,
                 StartOf("task_v2", d_record.observer_cruise_id, max_steps_override))
    /\ d_body' = d_record
    /\ d_response' = 200
    /\ d_pc' = "done"
    /\ UNCHANGED <<d_req, d_gen, d_record, d_calls>>
    /\ UNCHANGED <<wr_vars, call_vars, task_store_vars, task_call_vars, timeline_vars, tl_response, more_vars>>

NextDispatch ==
    \/ \E req \in TaskRunRequests, permitted \in BOOLEAN : RunTask_Start(req, permitted)
    \/ \E gen \in TaskGenerations : RunTask_GenerateTask(gen)
    \/ RunTask_GenerateTaskFails
    \/ RunTask_V1Run
    \/ \E llm_url \in {None, "u_llm"} : RunTask_V2Initialize(llm_url)
    \/ RunTask_V2InitializeFails
    \/ RunTask_V2Execute
    \/ \E req \in TaskV2Requests, permitted \in BOOLEAN : RunTaskV2_Start(req, permitted)
    \/ \E llm_url \in {None, "u_llm"} : RunTaskV2_Initialize(llm_url)
    \/ RunTaskV2_InitializeFails
    \/ RunTaskV2_Execute
    \/ ExecuteStart

SpecDispatch == Init /\ [][NextDispatch]_vars

(* ---------------------------- timeline --------------------------------- *)
\* creation times of timeline entries
Times == {1, 2, 3}

\* a WorkflowRunTimeline entry; block_type None is an entry without a block
TimelineEntry(eid, type, block_type, nested, t) ==
    [eid |-> eid, type |-> type, block_type |-> block_type,
     block_workflow_run_id |-> nested, created_at |-> t]

\* place e in a list sorted by created_at, most recent first, behind the
\* entries of the same created_at
RECURSIVE InsertDesc(_, _)
InsertDesc(e, s) ==
    IF s = <<>> THEN <<e>>
    ELSE IF Head(s).created_at >= e.created_at
         THEN <<Head(s)>> \o InsertDesc(e, Tail(s))
         ELSE <<e>> \o s

RECURSIVE SortDesc(_)

\* mutant: the entries are sorted through a mapping keyed by created_at,
\* which keeps one entry for each creation time
SortDesc_KeyedByCreatedAt(s) ==
    LET keys == {s[i].created_at : i \in DOMAIN s}
        rank(k) == Cardinality({k2 \in keys : k2 > k}) + 1
        last(k) == CHOOSE i \in DOMAIN s :
                      /\ s[i].created_at = k
                      /\ \A j \in DOMAIN s : s[j].created_at = k => j <= i
    IN [p \in 1..Cardinality(keys) |-> s[last(CHOOSE k \in keys : rank(k) = p)]]

\* list.sort(key=created_at, reverse=True): a stable sort
SortDesc(s) ==
    IF s = <<>> THEN <<>>
    ELSE InsertDesc(s[Len(s)], SortDesc(SubSeq(s, 1, Len(s) - 1)))

RECURSIVE flatten_workflow_run_timeline(_)

\* mutant: the TaskV2 block entry is kept and the nested timeline is added
\* behind it
LoopBody_KeepsBlock(timeline) ==
    IF timeline.block_type = None THEN <<>>
    ELSE IF timeline.block_type # "TaskV2" THEN <<timeline>>
    ELSE IF timeline.block_workflow_run_id = NoRun THEN <<>>
    ELSE <<timeline>> \o flatten_workflow_run_timeline(timeline.block_workflow_run_id)

\* one pass of the loop body of lines 1467-1488: what the entry adds to
\* final_workflow_run_block_timeline
LoopBody(timeline) ==
    IF timeline.block_type = None THEN <<>>
    ELSE IF timeline.block_type # "TaskV2" THEN <<timeline>>
    ELSE IF timeline.block_workflow_run_id = NoRun THEN <<>>
    ELSE flatten_workflow_run_timeline(timeline.block_workflow_run_id)

\* the loop of lines 1467-1488 from the i-th raw entry on
RECURSIVE LoopFrom(_, _)
LoopFrom(workflow_run_block_timeline, i) ==
    IF i > Len(workflow_run_block_timeline) THEN <<>>
    ELSE LoopBody(workflow_run_block_timeline[i])
             \o LoopFrom(workflow_run_block_timeline, i + 1)

\* _flatten_workflow_run_timeline (lines 1451-1497)
flatten_workflow_run_timeline(workflow_run_id) ==
    SortDesc(LoopFrom(tl_blocks[workflow_run_id], 1)
             \o (IF tl_task_v2[workflow_run_id] THEN tl_thoughts[workflow_run_id] ELSE <<>>))

\* the workflow runs that exist: the root run 1 and the nested runs that
\* TaskV2 blocks have spawned
TimelineRuns ==
    {1} \cup UNION {{tl_blocks[r][i].block_workflow_run_id : i \in DOMAIN tl_blocks[r]} \ {NoRun}
                       : r \in RunIds}

\* the engine records an executed block of run r; a TaskV2 block spawns a
\* nested workflow run with a task v2 of its own, or (inconsistent data)
\* names no run
RecordBlock(r, block_type, spawns, t) ==
    /\ tl_entries < MaxEntries
    /\ r \in TimelineRuns
    /\ spawns => (block_type = "TaskV2" /\ Cardinality(TimelineRuns) < MaxRuns)
    /\ LET nested == IF spawns THEN Cardinality(TimelineRuns) + 1 ELSE NoRun
       IN /\ tl_blocks' = [tl_blocks EXCEPT ![r] =
                  Append(@, TimelineEntry(tl_entries + 1, "block", block_type, nested, t))]
          /\ tl_task_v2' = IF spawns THEN [tl_task_v2 EXCEPT ![nested] = TRUE] ELSE tl_task_v2
    /\ tl_entries' = tl_entries + 1
    /\ tl_result' = NoResult
    /\ tl_response' = 0
    /\ UNCHANGED tl_thoughts
    /\ UNCHANGED <<wr_vars, call_vars, task_store_vars, task_call_vars, dispatch_vars, more_vars>>

\* the root workflow run is the run of a task v2
RecordTaskV2(r) ==
    /\ r \in TimelineRuns
    /\ ~tl_task_v2[r]
    /\ tl_task_v2' = [tl_task_v2 EXCEPT ![r] = TRUE]
    /\ tl_result' = NoResult
    /\ tl_response' = 0
    /\ UNCHANGED <<tl_blocks, tl_thoughts, tl_entries>>
    /\ UNCHANGED <<wr_vars, call_vars, task_store_vars, task_call_vars, dispatch_vars, more_vars>>

\* the task v2 of run r records a thought
RecordThought(r, t) ==
    /\ tl_entries < MaxEntries
    /\ r \in TimelineRuns
    /\ tl_task_v2[r]
    /\ tl_entries' = tl_entries + 1
    /\ tl_thoughts' = [tl_thoughts EXCEPT ![r] =
                          Append(@, TimelineEntry(tl_entries + 1, "thought", None, NoRun, t))]
    /\ tl_result' = NoResult
    /\ tl_response' = 0
    /\ UNCHANGED <<tl_blocks, tl_task_v2>>
    /\ UNCHANGED <<wr_vars, call_vars, task_store_vars, task_call_vars, dispatch_vars, more_vars>>

\* get_workflow_run_timeline (lines 815-821): the flattened timeline of r,
\* whether or not a workflow run r exists
GetWorkflowRunTimeline(r) ==
    /\ tl_result' = [workflow_run_id |-> r, timeline |-> flatten_workflow_run_timeline(r)]
    /\ tl_response' = 200
    /\ UNCHANGED <<tl_blocks, tl_task_v2, tl_thoughts, tl_entries>>
    /\ UNCHANGED <<wr_vars, call_vars, task_store_vars, task_call_vars, dispatch_vars, more_vars>>

BlockTypes == {None, "Form", "TaskV2"}

NextTimeline ==
    \/ \E r \in RunIds, block_type \in BlockTypes, spawns \in BOOLEAN, t \in Times :
          RecordBlock(r, block_type, spawns, t)
    \/ \E r \in RunIds : RecordTaskV2(r)
    \/ \E r \in RunIds, t \in Times : RecordThought(r, t)
    \/ \E r \in RunIds : GetWorkflowRunTimeline(r)

SpecTimeline == Init /\ [][NextTimeline]_vars

(* ---------------------------- timeline: the recursion ------------------ *)
\* the depth at which the interpreter ends a recursion with RecursionError;
\* deeper than any chain of distinct workflow runs
RecursionLimit == MaxRuns + 1

\* a call of _flatten_workflow_run_timeline: its argument, the position of
\* its for loop and its final_workflow_run_block_timeline
Frame(workflow_run_id) == [workflow_run_id |-> workflow_run_id, i |-> 1, final |-> <<>>]

Top == fl_stack[Len(fl_stack)]
TopEntry == tl_blocks[Top.workflow_run_id][Top.i]
InLoop == fl_status = "running" /\ Top.i <= Len(tl_blocks[Top.workflow_run_id])
SetTop(frame) == [fl_stack EXCEPT ![Len(fl_stack)] = frame]

\* a TaskV2 block is recorded that names a workflow run that exists already
\* (its own run or any other): nothing in the store prevents it
RecordBlockOfExistingRun(r, nested, t) ==
    /\ tl_entries < MaxEntries
    /\ r \in TimelineRuns
    /\ nested \in TimelineRuns
    /\ tl_blocks' = [tl_blocks EXCEPT ![r] =
           Append(@, TimelineEntry(tl_entries + 1, "block", "TaskV2", nested, t))]
    /\ tl_entries' = tl_entries + 1
    /\ tl_result' = NoResult
    /\ tl_response' = 0
    /\ UNCHANGED <<tl_task_v2, tl_thoughts>>
    /\ UNCHANGED <<wr_vars, call_vars, task_store_vars, task_call_vars, dispatch_vars, more_vars>>

\* the outermost call (line 821): the reads of lines 1457-1465 are part of
\* entering a call
Flatten_Start(r) ==
    /\ fl_status = "idle"
    /\ r \in TimelineRuns
    /\ fl_stack' = <<Frame(r)>>
    /\ fl_status' = "running"
    /\ fl_calls' = 1
    /\ UNCHANGED <<fl_result, run_workflow_vars>>
    /\ UNCHANGED <<wr_vars, call_vars, task_store_vars, task_call_vars, dispatch_vars,
                   timeline_vars, tl_response>>

\* mutant: a TaskV2 block without block_workflow_run_id ends the request
\* with an error instead of a warning
Flatten_Skip_Raises ==
    /\ InLoop
    /\ \/ TopEntry.block_type = None
       \/ TopEntry.block_type = "TaskV2" /\ TopEntry.block_workflow_run_id = NoRun
    /\ IF TopEntry.block_type = None
       THEN /\ fl_stack' = SetTop([Top EXCEPT !.i = @ + 1])
            /\ UNCHANGED fl_status
       ELSE /\ fl_stack' = <<>>
            /\ fl_status' = "raised"
    /\ UNCHANGED <<fl_calls, fl_result, run_workflow_vars>>
    /\ UNCHANGED <<wr_vars, call_vars, task_store_vars, task_call_vars, dispatch_vars,
                   timeline_vars, tl_response>>

\* lines 1468-1469 and 1474-1481: an entry without a block, or a TaskV2
\* block without block_workflow_run_id, is passed over
Flatten_Skip ==
    /\ InLoop
    /\ \/ TopEntry.block_type = None
       \/ TopEntry.block_type = "TaskV2" /\ TopEntry.block_workflow_run_id = NoRun
    /\ fl_stack' = SetTop([Top EXCEPT !.i = @ + 1])
    /\ UNCHANGED <<fl_status, fl_calls, fl_result, run_workflow_vars>>
    /\ UNCHANGED <<wr_vars, call_vars, task_store_vars, task_call_vars, dispatch_vars,
                   timeline_vars, tl_response>>

\* lines 1470-1473: a block of another type is appended
Flatten_Keep ==
    /\ InLoop
    /\ TopEntry.block_type \notin {None, "TaskV2"}
    /\ fl_stack' = SetTop([Top EXCEPT !.i = @ + 1, !.final = Append(@, TopEntry)])
    /\ UNCHANGED <<fl_status, fl_calls, fl_result, run_workflow_vars>>
    /\ UNCHANGED <<wr_vars, call_vars, task_store_vars, task_call_vars, dispatch_vars,
                   timeline_vars, tl_response>>

\* mutant: a nested run that is being flattened already is passed over (a
\* visited guard on the current path)
Flatten_Recurse_Guarded ==
    /\ InLoop
    /\ TopEntry.block_type = "TaskV2"
    /\ TopEntry.block_workflow_run_id # NoRun
    /\ Len(fl_stack) < RecursionLimit
    /\ IF \E k \in DOMAIN fl_stack : fl_stack[k].workflow_run_id = TopEntry.block_workflow_run_id
       THEN /\ fl_stack' = SetTop([Top EXCEPT !.i = @ + 1])
            /\ UNCHANGED fl_calls
       ELSE /\ fl_stack' = Append(fl_stack, Frame(TopEntry.block_workflow_run_id))
            /\ fl_calls' = fl_calls + 1
    /\ UNCHANGED <<fl_status, fl_result, run_workflow_vars>>
    /\ UNCHANGED <<wr_vars, call_vars, task_store_vars, task_call_vars, dispatch_vars,
                   timeline_vars, tl_response>>

\* lines 1483-1486: the recursive call for the nested workflow run
Flatten_Recurse ==
    /\ InLoop
    /\ TopEntry.block_type = "TaskV2"
    /\ TopEntry.block_workflow_run_id # NoRun
    /\ Len(fl_stack) < RecursionLimit
    /\ fl_stack' = Append(fl_stack, Frame(TopEntry.block_workflow_run_id))
    /\ fl_calls' = fl_calls + 1
    /\ UNCHANGED <<fl_status, fl_result, run_workflow_vars>>
    /\ UNCHANGED <<wr_vars, call_vars, task_store_vars, task_call_vars, dispatch_vars,
                   timeline_vars, tl_response>>

\* lines 1483-1486 at the recursion limit: RecursionError ends every call
Flatten_RecursionError ==
    /\ InLoop
    /\ TopEntry.block_type = "TaskV2"
    /\ TopEntry.block_workflow_run_id # NoRun
    /\ Len(fl_stack) >= RecursionLimit
    /\ fl_stack' = <<>>
    /\ fl_status' = "raised"
    /\ UNCHANGED <<fl_calls, fl_result, run_workflow_vars>>
    /\ UNCHANGED <<wr_vars, call_vars, task_store_vars, task_call_vars, dispatch_vars,
                   timeline_vars, tl_response>>

\* lines 1489-1497: the thoughts are added, the list is sorted and returned;
\* the caller extends its own list with it (line 1487)
Flatten_Return ==
    /\ fl_status = "running"
    /\ Top.i > Len(tl_blocks[Top.workflow_run_id])
    /\ LET returned == SortDesc(Top.final \o (IF tl_task_v2[Top.workflow_run_id]
                                              THEN tl_thoughts[Top.workflow_run_id]
                                              ELSE <<>>))
           callers == SubSeq(fl_stack, 1, Len(fl_stack) - 1)
       IN IF callers = <<>>
          THEN /\ fl_stack' = <<>>
               /\ fl_status' = "returned"
               /\ fl_result' = returned
          ELSE /\ fl_stack' = [callers EXCEPT ![Len(callers)] =
                                  [@ EXCEPT !.i = @ + 1, !.final = @ \o returned]]
               /\ UNCHANGED <<fl_status, fl_result>>
    /\ UNCHANGED <<fl_calls, run_workflow_vars>>
    /\ UNCHANGED <<wr_vars, call_vars, task_store_vars, task_call_vars, dispatch_vars,
                   timeline_vars, tl_response>>

Flatten_Step ==
    \/ Flatten_Skip
    \/ Flatten_Keep
    \/ Flatten_Recurse
    \/ Flatten_RecursionError
    \/ Flatten_Return

\* the records are written first, in the order of their creation times;
\* then one timeline is flattened
NextFlatten ==
    \/ /\ fl_status = "idle"
       /\ \E r \in RunIds, block_type \in BlockTypes, spawns \in BOOLEAN :
             RecordBlock(r, block_type, spawns, tl_entries + 1)
    \/ /\ fl_status = "idle"
       /\ \E r \in RunIds, nested \in RunIds : RecordBlockOfExistingRun(r, nested, tl_entries + 1)
    \/ /\ fl_status = "idle"
       /\ \E r \in RunIds : RecordThought(r, tl_entries + 1)
    \/ \E r \in RunIds : Flatten_Start(r)
    \/ Flatten_Step

SpecFlatten == Init /\ [][NextFlatten]_vars

\* a call that can take a step takes it
SpecFlattenFair == SpecFlatten /\ WF_vars(Flatten_Step)

(* ---------------------------- dispatch: run_workflow ------------------- *)
\* the requests of POST /workflows/{workflow_id}/run
WorkflowRunRequests ==
    [endpoint : {"run_workflow"},
     workflow_id : {"wpid_1", "wpid_2"},
     template : BOOLEAN,
     x_max_steps_override : {None, "5"}]

\* what app.STORAGE.retrieve_global_workflows may return
GlobalWorkflows == {{}, {"wpid_1"}}

\* a failed run_workflow request
RunWorkflowFails(code) ==
    /\ rw_pc' = "done"
    /\ rw_response' = code

\* POST /workflows/{workflow_id}/run arrives and the permission check runs
\* (lines 648-665)
RunWorkflow_Start(req, permitted) ==
    /\ rw_pc \in {"idle", "done"}
    /\ rw_calls < MaxDispatches
    /\ rw_calls' = rw_calls + 1
    /\ rw_req' = req
    /\ rw_events' = <<>>
    /\ IF ~permitted
       THEN RunWorkflowFails(403)
       ELSE /\ rw_pc' = IF req.template THEN "check_template" ELSE "setup"
            /\ rw_response' = 0
    /\ UNCHANGED <<wr_vars, call_vars, task_store_vars, task_call_vars, dispatch_vars,
                   timeline_vars, tl_response, flatten_vars>>

\* mutant: the workflow run is set up before the template is looked up
RunWorkflow_CheckTemplate_AfterSetup(global_workflows) ==
    /\ rw_pc = "check_template"
    /\ wr_status' = [wr_status EXCEPT ![rw_calls] = "created"]
    /\ IF rw_req.workflow_id \notin global_workflows
       THEN /\ rw_events' = rw_events \o
                   <<DispatchEvent("setup_workflow_run", rw_calls, rw_req.workflow_id),
                     DispatchEvent("retrieve_global_workflows", 0, "missing")>>
            /\ RunWorkflowFails(404)
       ELSE /\ rw_events' = rw_events \o
                   <<DispatchEvent("setup_workflow_run", rw_calls, rw_req.workflow_id),
                     DispatchEvent("retrieve_global_workflows", 0, "found")>>
            /\ rw_pc' = "get_workflow"
            /\ UNCHANGED rw_response
    /\ UNCHANGED <<rw_req, rw_calls>>
    /\ UNCHANGED <<wr_parent, wr_org, call_vars, task_store_vars, task_call_vars, dispatch_vars,
                   timeline_vars, tl_response, flatten_vars>>

\* lines 667-669: with template set, the id must be a global workflow, or
\* InvalidTemplateWorkflowPermanentId is raised
RunWorkflow_CheckTemplate(global_workflows) ==
    /\ rw_pc = "check_template"
    /\ IF rw_req.workflow_id \notin global_workflows
       THEN /\ rw_events' = Append(rw_events,
                                   DispatchEvent("retrieve_global_workflows", 0, "missing"))
            /\ RunWorkflowFails(404)
       ELSE /\ rw_events' = Append(rw_events,
                                   DispatchEvent("retrieve_global_workflows", 0, "found"))
            /\ rw_pc' = "setup"
            /\ UNCHANGED rw_response
    /\ UNCHANGED <<rw_req, rw_calls>>
    /\ UNCHANGED <<wr_vars, call_vars, task_store_vars, task_call_vars, dispatch_vars,
                   timeline_vars, tl_response, flatten_vars>>

\* lines 671-679: setup_workflow_run creates the workflow run
RunWorkflow_Setup ==
    /\ rw_pc = "setup"
    /\ wr_status' = [wr_status EXCEPT ![rw_calls] = "created"]
    /\ rw_events' = Append(rw_events,
                           DispatchEvent("setup_workflow_run", rw_calls, rw_req.workflow_id))
    /\ rw_pc' = "get_workflow"
    /\ UNCHANGED <<rw_req, rw_response, rw_calls>>
    /\ UNCHANGED <<wr_parent, wr_org, call_vars, task_store_vars, task_call_vars, dispatch_vars,
                   timeline_vars, tl_response, flatten_vars>>

\* lines 671-679: setup_workflow_run raises (no such workflow)
RunWorkflow_SetupFails ==
    /\ rw_pc = "setup"
    /\ rw_events' = Append(rw_events, DispatchEvent("setup_workflow_run", 0, "raised"))
    /\ RunWorkflowFails(404)
    /\ UNCHANGED <<rw_req, rw_calls>>
    /\ UNCHANGED <<wr_vars, call_vars, task_store_vars, task_call_vars, dispatch_vars,
                   timeline_vars, tl_response, flatten_vars>>

\* lines 680-684: get_workflow_by_permanent_id
RunWorkflow_GetWorkflow ==
    /\ rw_pc = "get_workflow"
    /\ rw_events' = Append(rw_events,
                           DispatchEvent("get_workflow_by_permanent_id", 0, rw_req.workflow_id))
    /\ rw_pc' = "create_task_run"
    /\ UNCHANGED <<rw_req, rw_response, rw_calls>>
    /\ UNCHANGED <<wr_vars, call_vars, task_store_vars, task_call_vars, dispatch_vars,
                   timeline_vars, tl_response, flatten_vars>>

\* lines 685-690: create_task_run for the workflow run
RunWorkflow_CreateTaskRun ==
    /\ rw_pc = "create_task_run"
    /\ rw_events' = Append(rw_events, DispatchEvent("create_task_run", rw_calls, "workflow_run"))
    /\ rw_pc' = "execute"
    /\ UNCHANGED <<rw_req, rw_response, rw_calls>>
    /\ UNCHANGED <<wr_vars, call_vars, task_store_vars, task_call_vars, dispatch_vars,
                   timeline_vars, tl_response, flatten_vars>>

\* lines 691-706: the override is logged when truthy, execute_workflow
\* enqueues the execution and the run ids are returned
RunWorkflow_Execute ==
    /\ rw_pc = "execute"
    /\ rw_events' = (IF Truthy(rw_req.x_max_steps_override)
                     THEN Append(rw_events,
                                 DispatchEvent("log_override", 0, rw_req.x_max_steps_override))
                     ELSE rw_events)
                    \o <<DispatchEvent("enqueue", rw_calls, rw_req.x_max_steps_override)>>
    /\ starts' = Append(starts, StartOf("workflow_run", rw_calls, rw_req.x_max_steps_override))
    /\ rw_response' = 200
    /\ rw_pc' = "done"
    /\ UNCHANGED <<rw_req, rw_calls>>
    /\ UNCHANGED <<d_pc, d_req, d_gen, d_record, d_events, d_response, d_body, d_calls>>
    /\ UNCHANGED <<wr_vars, call_vars, task_store_vars, task_call_vars,
                   timeline_vars, tl_response, flatten_vars>>

NextRunWorkflow ==
    \/ \E req \in WorkflowRunRequests, permitted \in BOOLEAN : RunWorkflow_Start(req, permitted)
    \/ \E global_workflows \in GlobalWorkflows : RunWorkflow_CheckTemplate(global_workflows)
    \/ RunWorkflow_Setup
    \/ RunWorkflow_SetupFails
    \/ RunWorkflow_GetWorkflow
    \/ RunWorkflow_CreateTaskRun
    \/ RunWorkflow_Execute
    \/ ExecuteStart

SpecRunWorkflow == Init /\ [][NextRunWorkflow]_vars

(* ---------------------------- concurrent cancellations ----------------- *)
\* requests are numbered in their order of arrival
Arrived(c) == pc[c] # "idle"

\* the requests in flight and the workflow runs of the store, taken together
MaxLoad == MaxRuns + 1

\* several POST /workflows/runs/{id}/cancel requests for one run of
\* organization o1 are in flight together, their awaits interleaved in any
\* way; the store was filled before the first of them arrived
NextConcurrent ==
    \/ AllIdle /\ \E r \in RunIds, p \in RunIds \cup {NoParent} : CreateWorkflowRun(r, p, "o1")
    \/ AllIdle /\ \E r \in RunIds, s \in WorkflowRunStatus : ExecutorTransition(r, s)
    \/ \E c \in Callers, id \in RunIds :
         /\ \A d \in Callers : d < c => Arrived(d) /\ target[d] = id
         /\ c + Cardinality(Existing(wr_status)) <= MaxLoad
         /\ CancelWorkflowRun_Start(c, id, "o1")
    \/ \E c \in Callers : CancelWorkflowRun_GetChildren(c)
    \/ \E c \in Callers : CancelWorkflowRun_Loop(c)
    \/ \E c \in Callers : CancelWorkflowRun_MarkTarget(c)
    \/ \E c \in Callers : CancelWorkflowRun_Webhook(c)

SpecConcurrent == Init /\ [][NextConcurrent]_vars

(* ---------------------------- cancellation and the other records ------ *)
\* no cancel request is in flight
Quiet == AllIdle /\ tpc = "idle"

\* the records of the store: workflow runs, tasks, blocks and thoughts
Load ==
    Cardinality(Existing(wr_status))
        + Cardinality({t \in TaskIds : task_status[t] # Absent}) + tl_entries

\* the two cancel handlers of organization o1, one request at a time, over a
\* store of at most MaxRuns records that the executors fill between the
\* requests, running what they run to completion; a behaviour works on the
\* workflow runs or on the tasks, and on the blocks and thoughts in both cases
NextFrame ==
    \/ Quiet /\ NoTaskActivity /\ Load < MaxRuns
          /\ \E r \in RunIds, p \in RunIds \cup {NoParent} : CreateWorkflowRun(r, p, "o1")
    \/ Quiet /\ \E r \in RunIds, s \in {"running", "completed"} : ExecutorTransition(r, s)
    \/ Quiet /\ NoRunActivity /\ Load < MaxRuns /\ \E t \in TaskIds : CreateTask(t, "o1")
    \/ Quiet /\ \E t \in TaskIds, s \in {"running", "completed"} : TaskExecutorTransition(t, s)
    \/ Quiet /\ \E t \in TaskIds : RecordStep(t)
    \/ Quiet /\ Load < MaxRuns
          /\ \E r \in RunIds : RecordBlock(r, "Form", FALSE, tl_entries + 1)
    \/ Quiet /\ Load < MaxRuns /\ \E r \in RunIds : RecordTaskV2(r)
    \/ Quiet /\ Load < MaxRuns
          /\ \E r \in RunIds : RecordThought(r, tl_entries + 1)
    \/ Quiet /\ \E id \in RunIds : CancelWorkflowRun_Start(1, id, "o1")
    \/ CancelWorkflowRun_GetChildren(1)
    \/ CancelWorkflowRun_Loop(1)
    \/ CancelWorkflowRun_MarkTarget(1)
    \/ CancelWorkflowRun_Webhook(1)
    \/ CancelWorkflowRun_Return(1)
    \/ Quiet /\ \E id \in TaskIds : CancelTask_Start(id, "o1")
    \/ CancelTask_UpdateTask
    \/ CancelTask_GetLatestStep
    \/ CancelTask_Webhook
    \/ CancelTask_Return

SpecFrame == Init /\ [][NextFrame]_vars

(* ---------------------------- a failing child write -------------------- *)
\* cancel_workflow_run requests of organization o1, one at a time, where the
\* write of a child may raise; no executor writes while a request runs
NextWriteFail ==
    \/ AllIdle /\ \E r \in RunIds, p \in RunIds \cup {NoParent} : CreateWorkflowRun(r, p, "o1")
    \/ AllIdle /\ \E r \in RunIds, s \in WorkflowRunStatus : ExecutorTransition(r, s)
    \/ AllIdle /\ \E id \in RunIds : CancelWorkflowRun_Start(1, id, "o1")
    \/ CancelWorkflowRun_GetChildren(1)
    \/ CancelWorkflowRun_Loop(1)
    \/ CancelWorkflowRun_LoopFails(1)
    \/ CancelWorkflowRun_MarkTarget(1)
    \/ CancelWorkflowRun_Webhook(1)
    \/ CancelWorkflowRun_Return(1)

SpecWriteFail == Init /\ [][NextWriteFail]_vars

(* ---------------------------- cancellation and the executors ----------- *)
\* the request has been answered
Answered(c) == pc[c] = "done"

\* one cancel_workflow_run request of one organization, with the engine
\* executors creating and moving workflow runs between any two of its awaits
NextRace ==
    \/ ~Answered(1) /\ \E r \in RunIds, p \in RunIds \cup {NoParent} : CreateWorkflowRun(r, p, "o1")
    \/ ~Answered(1) /\ \E r \in RunIds, s \in WorkflowRunStatus : ExecutorTransition(r, s)
    \/ \E id \in RunIds : CancelWorkflowRun_Start(1, id, "o1")
    \/ CancelWorkflowRun_GetChildren(1)
    \/ CancelWorkflowRun_Loop(1)
    \/ CancelWorkflowRun_MarkTarget(1)
    \/ CancelWorkflowRun_Webhook(1)
    \/ CancelWorkflowRun_Return(1)

SpecRace == Init /\ [][NextRace]_vars

(* ---------------------------- properties ------------------------------- *)
Returned(c) == pc[c] = "done" /\ response[c] = 200
NotFound(c) == pc[c] = "done" /\ response[c] = 404

RECURSIVE AncestorsOf(_)
AncestorsOf(r) ==
    IF wr_parent[r] = NoParent THEN {}
    ELSE {wr_parent[r]} \cup AncestorsOf(wr_parent[r])

\* the runs of the tree below P, and its direct children
Descendants(P) == {r \in RunIds : wr_status[r] # Absent /\ P \in AncestorsOf(r)}
DirectChildren(P) == {r \in RunIds : wr_status[r] # Absent /\ wr_parent[r] = P}

WritesOf(evs) == {i \in DOMAIN evs : evs[i].kind = "write"}
WebhooksOf(evs) == {i \in DOMAIN evs : evs[i].kind = "webhook"}

\* C1: once the status of a workflow run is terminal it never changes
\* again, whatever cancel_workflow_run calls and executor transitions follow.
C1_TerminalStatusIsFinal ==
    [][\A r \in RunIds :
         wr_status[r] \in TerminalStatuses => wr_status'[r] = wr_status[r]]_vars

\* C2: when cancel_workflow_run(P) has returned and nothing else wrote in
\* between, P is canceled, every direct child that was running, created or
\* queued is canceled, and every direct child that was terminal has the
\* status it had.
C2_CascadePostcondition ==
    \A c \in Callers : Returned(c) =>
        /\ wr_status[target[c]] = "canceled"
        /\ \A r \in DirectChildren(target[c]) :
             /\ at_call[c][r] \in NonTerminalStatuses => wr_status[r] = "canceled"
             /\ at_call[c][r] \in TerminalStatuses => wr_status[r] = at_call[c][r]

C2_Witness ==
    \E c \in Callers : Returned(c) /\
        \E r, q \in DirectChildren(target[c]) :
            /\ at_call[c][r] = "running" /\ wr_status[r] = "canceled"
            /\ at_call[c][q] = "completed" /\ wr_status[q] = "completed"

\* C3: a cancel_workflow_run call that succeeds has fired exactly one
\* webhook, for its target, and none for a child; a call still running has
\* fired none.
C3_ExactlyOneWebhook ==
    \A c \in Callers :
        /\ Returned(c) =>
             /\ Cardinality(WebhooksOf(events[c])) = 1
             /\ \A i \in WebhooksOf(events[c]) : events[c][i].id = target[c]
        /\ ~Returned(c) => WebhooksOf(events[c]) = {}

C3_Witness ==
    \E c \in Callers : Returned(c) /\
        /\ Cardinality(DirectChildren(target[c])) >= 2
        /\ at_call[c][target[c]] \in TerminalStatuses
        /\ Cardinality(WebhooksOf(events[c])) = 1

\* C4: the events of one cancel_workflow_run call are totally ordered: a
\* step makes at most one status write, no child write follows the write
\* of the target, and the webhook follows every status write of the call.
C4_EventOrder ==
    /\ [](\A c \in Callers : \A i, j \in DOMAIN events[c] : i < j =>
             /\ events[c][i].kind = "write"
             /\ events[c][i].id = target[c] => events[c][j].kind = "webhook")
    /\ [][\A c \in Callers : Len(events'[c]) <= Len(events[c]) + 1]_vars
    /\ [](\A c \in Callers : Returned(c) =>
             /\ events[c][Len(events[c])].kind = "webhook"
             /\ events[c][Len(events[c]) - 1] = WriteEvent(target[c]))

C4_Witness ==
    \E c \in Callers : Returned(c) /\ Len(events[c]) = 4
        /\ events[c][1].kind = "write" /\ events[c][1].id # target[c]
        /\ events[c][2].kind = "write" /\ events[c][2].id # target[c]
        /\ events[c][3] = WriteEvent(target[c])
        /\ events[c][4].kind = "webhook"

\* C5 as stated: when cancel_workflow_run(P) has returned, every run of the
\* tree below P (children, grandchildren and deeper) that was not terminal
\* is canceled.
C5_DescendantsCanceled ==
    \A c \in Callers : Returned(c) =>
        \A d \in Descendants(target[c]) :
            at_call[c][d] \in NonTerminalStatuses => wr_status[d] = "canceled"

\* C5 amended: when cancel_workflow_run(P) has returned, every direct child
\* of P that was not terminal is canceled, and every deeper descendant has
\* the status it had before the call.
C5_DirectChildrenOnly ==
    \A c \in Callers : Returned(c) =>
        \A d \in Descendants(target[c]) :
            IF wr_parent[d] = target[c]
            THEN at_call[c][d] \in NonTerminalStatuses => wr_status[d] = "canceled"
            ELSE wr_status[d] = at_call[c][d]

C5_Witness ==
    \E c \in Callers : Returned(c) /\
        \E d \in Descendants(target[c]) :
            /\ wr_parent[d] # target[c]
            /\ wr_status[wr_parent[d]] = "canceled"
            /\ at_call[c][wr_parent[d]] = "running"
            /\ wr_status[d] = "running"

\* C6: a cancel_workflow_run(P) call writes to P and to the runs whose
\* parent is P and to nothing else: through the whole call every other run
\* (a grandchild, an unrelated run) has the status it had when the call
\* started.
C6_WritesOnlyTargetAndChildren ==
    \A c \in Callers : pc[c] # "idle" =>
        /\ \A r \in RunIds :
             r # target[c] /\ wr_parent[r] # target[c] => wr_status[r] = at_call[c][r]
        /\ \A i \in WritesOf(events[c]) :
             events[c][i].id = target[c] \/ wr_parent[events[c][i].id] = target[c]

C6_Witness ==
    \E c \in Callers : Returned(c) /\
        \E r, g \in RunIds :
            /\ wr_parent[r] = target[c] /\ WriteEvent(r) = events[c][1]
            /\ wr_parent[g] = r /\ wr_status[g] \in NonTerminalStatuses

\* C7: the target is marked canceled whatever its status was: a call that
\* got past the 404 check issues the write for the target exactly once,
\* also when the target was already terminal.
C7_TargetMarkedUnconditionally ==
    \A c \in Callers : (pc[c] = "webhook" \/ Returned(c)) =>
        /\ Cardinality({i \in WritesOf(events[c]) : events[c][i].id = target[c]}) = 1
        /\ wr_status[target[c]] = "canceled"

C7_Witness ==
    \E c \in Callers : Returned(c)
        /\ at_call[c][target[c]] = "completed"
        /\ WriteEvent(target[c]) = events[c][1]

\* C8: cancel_workflow_run on an id with no record, or with a record of
\* another organization, answers 404 and nothing else happens: no child
\* list is kept, no status is written, no webhook is fired; and only such
\* a call answers 404.
MissingForCaller(c) ==
    at_call[c][target[c]] = Absent \/ wr_org[target[c]] # org[c]

C8_NotFoundLeavesStore ==
    \A c \in Callers : pc[c] # "idle" =>
        /\ MissingForCaller(c) =>
             /\ NotFound(c)
             /\ child_workflow_runs[c] = <<>>
             /\ events[c] = <<>>
             /\ wr_status = at_call[c]
        /\ NotFound(c) => MissingForCaller(c)

C8_Witness ==
    \E c \in Callers : NotFound(c)
        /\ wr_status[target[c]] = "running"
        /\ wr_org[target[c]] # org[c]
        /\ \E r \in RunIds : wr_parent[r] = target[c] /\ wr_status[r] = "running"

\* C9: cancel_task on an existing task writes status canceled and then
\* fires one webhook for the task, in this order, with or without a
\* recorded step and whatever webhooks were sent before; on a missing task
\* it answers 404 and writes and fires nothing.
TaskMissingForCaller ==
    task_at_call = Absent \/ task_org[ttarget] # torg

C9_CancelTaskWritesThenFires ==
    tpc # "idle" =>
        /\ TaskMissingForCaller => tpc = "done" /\ tresponse = 404 /\ tevents = <<>>
        /\ tresponse = 404 => TaskMissingForCaller
        /\ tpc = "done" /\ tresponse = 200 =>
             /\ Len(tevents) = 2
             /\ tevents[1] = TaskWriteEvent(ttarget, "canceled")
             /\ tevents[2].kind = "webhook" /\ tevents[2].id = ttarget
        /\ tpc # "done" => \A i \in DOMAIN tevents : tevents[i].kind = "write"

C9_Witness ==
    /\ tpc = "done" /\ tresponse = 200
    /\ ~task_steps[ttarget]
    /\ task_webhooks[ttarget] = 2
    /\ Len(tevents) = 2

\* C10: cancel_task on a task that is already completed, failed,
\* terminated or canceled leaves the status of the task as it was.
C10_TerminalTaskUnchanged ==
    (tpc = "done" /\ tresponse = 200 /\ task_at_call \in TerminalStatuses)
        => task_status[ttarget] = task_at_call

\* C11: retry_webhook on an existing task fires the webhook of the task once,
\* writes no task status and enqueues no execution start, with or without a
\* recorded step.
C11_RetryWebhookFiresOnce ==
    (tpc = "done" /\ tresponse = 200) =>
        /\ Len(tevents) = 1
        /\ tevents[1].kind = "webhook" /\ tevents[1].id = ttarget
        /\ \A i \in DOMAIN tevents : tevents[i].kind # "write"
        /\ starts = <<>>

\* C12: when the webhook at the end of cancel_workflow_run or cancel_task
\* fails, that call has attempted it once and the status writes it made
\* stay: the target and the children it canceled are canceled.
C12_WebhookFailureKeepsWrites ==
    /\ \A c \in Callers : (pc[c] = "done" /\ response[c] = 500) =>
         /\ Cardinality(WebhooksOf(events[c])) = 1
         /\ wr_status[target[c]] = "canceled"
         /\ \A i \in WritesOf(events[c]) : wr_status[events[c][i].id] = "canceled"
         /\ \A r \in DirectChildren(target[c]) :
              at_call[c][r] \in NonTerminalStatuses => wr_status[r] = "canceled"
    /\ (tpc = "done" /\ tresponse = 500) =>
         /\ Cardinality({i \in DOMAIN tevents : tevents[i].kind = "webhook"}) = 1
         /\ task_status[ttarget] = "canceled"

C12_Witness ==
    \E c \in Callers : pc[c] = "done" /\ response[c] = 500
        /\ Len(events[c]) = 3
        /\ events[c][1].id # target[c]
        /\ at_call[c][events[c][1].id] = "running"
        /\ at_call[c][target[c]] = "running"
        /\ wr_status[events[c][1].id] = "canceled"

(* ---------------------------- dispatch properties ---------------------- *)
DispatchReturned == d_pc = "done" /\ d_response = 200
DispatchFailed == d_pc = "done" /\ d_response # 200
EventsCalled(call) == {i \in DOMAIN d_events : d_events[i].call = call}
StartsOf(id) == {i \in DOMAIN starts : starts[i].run_id = id}

ProviderFailed ==
    \E i \in EventsCalled("initialize_task_v2") : d_events[i].arg = "LLMProviderError"

\* C14: when the reasoning provider fails during v2 initialization, in
\* run_task with engine v2 and in run_task_v2 alike, the request ends at
\* once with a 500-class error: no execution start is enqueued, no run is
\* returned and no run record exists for the request.
C14_ProviderFailureCreatesNothing ==
    ProviderFailed =>
        /\ d_pc = "done"
        /\ d_response \in 500..599
        /\ EventsCalled("enqueue") = {}
        /\ StartsOf(d_calls) = {}
        /\ d_body = NoBody
        /\ d_record = NoEngineRecord

C14_Witness ==
    /\ ProviderFailed
    /\ d_pc = "done"
    /\ d_response = 500
    /\ d_req.endpoint = "run_task"
    /\ d_req.engine = "skyvern-2.0"
    /\ starts = <<>>

\* the id of a created engine record, whichever engine it belongs to
RecordId(rec) == IF rec.kind = "task_v1" THEN rec.task_id ELSE rec.observer_cruise_id

CreatingCalls == {"create_task", "initialize_task_v2"}

\* C15: a dispatch that returns a run has enqueued exactly one execution
\* start, for that run and after the call that created its record, and it
\* returns the run in the non-terminal status it was created in, without
\* waiting for the execution; a dispatch that fails has enqueued none.
C15_OneStartPerReturnedRun ==
    /\ DispatchReturned =>
         /\ Cardinality(EventsCalled("enqueue")) = 1
         /\ \A i \in EventsCalled("enqueue") :
              /\ d_events[i].run_id = RecordId(d_record)
              /\ \E j \in 1..(i - 1) :
                   /\ d_events[j].call \in CreatingCalls
                   /\ d_events[j].run_id = RecordId(d_record)
         /\ Cardinality(StartsOf(RecordId(d_record))) <= 1
         /\ d_record.status \in NonTerminalStatuses
         /\ d_body.status = d_record.status
    /\ DispatchFailed =>
         /\ EventsCalled("enqueue") = {}
         /\ StartsOf(d_calls) = {}

\* the run has been returned while its start is still waiting in the queue
C15_Witness ==
    /\ DispatchReturned
    /\ d_req.endpoint = "run_task"
    /\ d_req.engine = "skyvern-2.0"
    /\ Cardinality(StartsOf(RecordId(d_record))) = 1
    /\ d_record.status = "created"

\* C16: on the v1 path task generation is called exactly when the request
\* has no url, and before the run is created; when it is called the
\* created run's schema is the request's data_extraction_schema if the
\* request supplies one and the generated schema otherwise; when it is not
\* called the request's url, goal and schema are used unchanged.
C16_GenerationAndSchema ==
    (DispatchReturned /\ d_req.endpoint = "run_task" /\ d_req.engine = "skyvern-1.0") =>
        /\ (EventsCalled("generate_task") # {}) <=> (d_req.url = None)
        /\ \A i \in EventsCalled("generate_task"), j \in EventsCalled("create_task") : i < j
        /\ EventsCalled("generate_task") # {} =>
             d_record.extracted_information_schema =
                 IF d_req.data_extraction_schema # None
                 THEN d_req.data_extraction_schema
                 ELSE d_gen.extracted_information_schema
        /\ EventsCalled("generate_task") = {} =>
             /\ d_record.url = d_req.url
             /\ d_record.navigation_goal = d_req.goal
             /\ d_record.extracted_information_schema = d_req.data_extraction_schema

\* an override header that was sent and is not the number zero
SuppliedNonzero(v) == v # None /\ v # "0"

RunFields ==
    {"run_id", "title", "status", "created_at", "updated_at", "engine", "goal", "url",
     "output", "failure_reason", "webhook_url", "totp_identifier", "totp_url",
     "proxy_location", "error_code_mapping", "max_steps"}

\* C18: the Run returned by run_task has the same fields for engine v1 and
\* for engine v2 (id, title, status as a string, created and updated
\* timestamps, goal, url, output, failure reason, webhook url, TOTP
\* identifier and url, proxy location, error-code mapping, max-steps), the
\* id, status and timestamps being those of the created engine record, and
\* its engine is the engine of the request.
C18_SameRunFields ==
    (DispatchReturned /\ d_req.endpoint = "run_task") =>
        /\ RunFields \subseteq DOMAIN d_body
        /\ d_body.engine = d_req.engine
        /\ d_body.run_id = RecordId(d_record)
        /\ d_body.status = Str(d_record.status)
        /\ d_body.created_at = d_record.created_at
        /\ d_body.updated_at = d_record.modified_at

(* ---------------------------- timeline properties ---------------------- *)
Eids(s) == {s[i].eid : i \in DOMAIN s}
Entries(s) == {s[i] : i \in DOMAIN s}
SpliceBlocks(r) ==
    {b \in Entries(tl_blocks[r]) : b.block_type = "TaskV2" /\ b.block_workflow_run_id # NoRun}
KeptBlocks(r) ==
    {b \in Entries(tl_blocks[r]) : b.block_type \notin {None, "TaskV2"}}

\* the entries a timeline of run r is made of: its kept blocks, what the
\* runs nested in it are made of, and the thoughts of its task v2
RECURSIVE Accumulated(_)
Accumulated(r) ==
    KeptBlocks(r)
        \cup UNION {Accumulated(b.block_workflow_run_id) : b \in SpliceBlocks(r)}
        \cup (IF tl_task_v2[r] THEN Entries(tl_thoughts[r]) ELSE {})

SortedDesc(s) == \A i, j \in DOMAIN s : i < j => s[i].created_at >= s[j].created_at

C20_TaskV2BlocksSpliced ==
    tl_result.workflow_run_id # NoRun =>
        LET out == tl_result.timeline
        IN /\ \A i \in DOMAIN out : out[i].block_type # "TaskV2"
           /\ \A b \in SpliceBlocks(tl_result.workflow_run_id) :
                /\ b.eid \notin Eids(out)
                /\ Entries(flatten_workflow_run_timeline(b.block_workflow_run_id))
                       \subseteq Entries(out)
           /\ \A i, j \in DOMAIN out :
                out[i].created_at > out[j].created_at => i < j

\* the nested run's entry is more recent than the parent's block recorded
\* before the TaskV2 block, and stands before it in the timeline of run 1
C20_Witness ==
    /\ tl_result.workflow_run_id = 1
    /\ Len(tl_result.timeline) = 2
    /\ Len(tl_blocks[1]) = 2
    /\ tl_blocks[1][1].block_type = "Form"
    /\ tl_blocks[1][2].block_type = "TaskV2"
    /\ tl_blocks[1][2].block_workflow_run_id = 2
    /\ tl_result.timeline[1] \in Entries(tl_blocks[2])
    /\ tl_result.timeline[2] = tl_blocks[1][1]
    /\ tl_result.timeline[1].created_at > tl_result.timeline[2].created_at

\* C23: a timeline request for a workflow run id that no workflow run has
\* is answered with 404, not with a list.
C23_MissingRunNotFound ==
    (tl_response # 0 /\ tl_result.workflow_run_id \notin TimelineRuns) =>
        tl_response = 404

(* ---------------------------- recursion properties --------------------- *)
\* an entry of the raw block timeline with no block, or with a TaskV2 block
\* that has no nested run id
Malformed(e) ==
    /\ e.type = "block"
    /\ \/ e.block_type = None
       \/ e.block_type = "TaskV2" /\ e.block_workflow_run_id = NoRun

\* the workflow run the outermost call was made for
FlattenedRun == IF fl_stack = <<>> THEN NoRun ELSE fl_stack[1].workflow_run_id

\* C21: a raw entry with no block, and a TaskV2 block entry with no nested
\* workflow-run id, are passed over: the step adds nothing to the list,
\* raises nothing and makes no recursive call, the loop goes on with the
\* next entry, and the list returned holds no such entry and every kept
\* block of the run.
C21_MalformedEntriesSkipped ==
    /\ [][(InLoop /\ Malformed(TopEntry)) =>
            /\ fl_status' = "running"
            /\ fl_calls' = fl_calls
            /\ Len(fl_stack') = Len(fl_stack)
            /\ fl_stack'[Len(fl_stack')] = [Top EXCEPT !.i = @ + 1]]_vars
    /\ [](fl_status = "returned" =>
            \A k \in DOMAIN fl_result : ~Malformed(fl_result[k]))
    /\ [][fl_status' = "returned" =>
            KeptBlocks(FlattenedRun) \subseteq Entries(fl_result')]_vars

\* the run has a block without payload, a dangling TaskV2 block and a Form
\* block behind them; the Form block alone has been returned
C21_Witness ==
    /\ fl_status = "returned"
    /\ Len(tl_blocks[1]) = 3
    /\ tl_blocks[1][1].block_type = None
    /\ tl_blocks[1][2].block_type = "TaskV2"
    /\ tl_blocks[1][2].block_workflow_run_id = NoRun
    /\ fl_result = <<tl_blocks[1][3]>>
    /\ fl_calls = 1

\* the runs named by the TaskV2 blocks of run r
NestedRunsOf(r) == {b.block_workflow_run_id : b \in SpliceBlocks(r)}

\* the runs reached from the runs of S in at most n nested references
RECURSIVE ReachedIn(_, _)
ReachedIn(S, n) ==
    IF n = 0 THEN S ELSE ReachedIn(S \cup UNION {NestedRunsOf(x) : x \in S}, n - 1)

ReachableFrom(r) == ReachedIn({r}, MaxRuns)

\* some run reachable from r is nested, directly or not, in itself
Cyclic(r) ==
    \E x \in ReachableFrom(r) : x \in ReachedIn(NestedRunsOf(x), MaxRuns)

\* the sum of the values of f over the set S
RECURSIVE SumOf(_, _)
SumOf(S, f) ==
    IF S = {} THEN 0 ELSE LET x == CHOOSE y \in S : TRUE IN f[x] + SumOf(S \ {x}, f)

\* the TaskV2 blocks with a nested run id in the runs reachable from r
NestedReferences(r) ==
    SumOf(ReachableFrom(r), [x \in ReachableFrom(r) |-> Cardinality(SpliceBlocks(x))])

\* the chains of nested references that start at r, the empty one included
\* (r not cyclic)
RECURSIVE Chains(_)
Chains(r) ==
    1 + SumOf(SpliceBlocks(r), [b \in SpliceBlocks(r) |-> Chains(b.block_workflow_run_id)])

\* no workflow run is named by two TaskV2 blocks
NestedOnce ==
    \A r1, r2 \in RunIds : \A b1 \in SpliceBlocks(r1), b2 \in SpliceBlocks(r2) :
        b1.block_workflow_run_id = b2.block_workflow_run_id => b1 = b2

\* C22 as stated: the call returns exactly when the graph of nested runs
\* reachable from the requested run is acyclic; it then has made no more
\* recursive calls than there are nested references, and on a graph with a
\* cycle it never returns.
C22_ReturnsIffAcyclic ==
    /\ (fl_status = "running" /\ ~Cyclic(FlattenedRun)) ~> (fl_status = "returned")
    /\ [][fl_status' = "returned" =>
            /\ ~Cyclic(FlattenedRun)
            /\ fl_calls' - 1 <= NestedReferences(FlattenedRun)]_vars

\* C22, amended: the call returns exactly when the graph of nested runs
\* reachable from the requested run is acyclic; it then has made one call
\* for each chain of nested references from the requested run (as many
\* recursive calls as nested references when no run is named twice), and on
\* a graph with a cycle it never returns.
C22_ReturnsIffAcyclicChains ==
    /\ (fl_status = "running" /\ ~Cyclic(FlattenedRun)) ~> (fl_status = "returned")
    /\ [][fl_status' = "returned" =>
            /\ ~Cyclic(FlattenedRun)
            /\ fl_calls' = Chains(FlattenedRun)
            /\ NestedOnce => fl_calls' - 1 = NestedReferences(FlattenedRun)]_vars
    /\ [][fl_status' = "raised" => Cyclic(FlattenedRun)]_vars

\* run 1 names run 2 twice and run 2 names run 3: five calls for three
\* nested references
C22_Witness ==
    /\ fl_status = "returned"
    /\ fl_calls = 5
    /\ Cardinality(SpliceBlocks(1)) = 2
    /\ NestedRunsOf(1) = {2}
    /\ NestedRunsOf(2) = {3}

(* ---------------------------- run_workflow properties ------------------ *)
WorkflowEventsCalled(call) == {i \in DOMAIN rw_events : rw_events[i].call = call}

\* the template lookup of the request did not find the workflow id
InvalidTemplate ==
    \E i \in WorkflowEventsCalled("retrieve_global_workflows") : rw_events[i].arg = "missing"

\* C24: run_workflow with template set and a workflow id that is not a
\* global workflow fails before anything is created: no workflow run is set
\* up, no task run is created, no execution start is enqueued; a request
\* that succeeds has set up the workflow run, then created the task run,
\* then enqueued exactly one execution start, all for the same run.
C24_TemplateCheckedBeforeSetup ==
    /\ InvalidTemplate =>
         /\ rw_req.template
         /\ rw_pc = "done"
         /\ rw_response \in 400..499
         /\ WorkflowEventsCalled("setup_workflow_run") = {}
         /\ WorkflowEventsCalled("create_task_run") = {}
         /\ WorkflowEventsCalled("enqueue") = {}
         /\ wr_status[rw_calls] = Absent
         /\ StartsOf(rw_calls) = {}
    /\ (rw_pc = "done" /\ rw_response = 200) =>
         /\ Cardinality(WorkflowEventsCalled("setup_workflow_run")) = 1
         /\ Cardinality(WorkflowEventsCalled("create_task_run")) = 1
         /\ Cardinality(WorkflowEventsCalled("enqueue")) = 1
         /\ \A i \in WorkflowEventsCalled("setup_workflow_run"),
               j \in WorkflowEventsCalled("create_task_run"),
               k \in WorkflowEventsCalled("enqueue") :
                /\ i < j /\ j < k
                /\ rw_events[i].run_id = rw_calls
                /\ rw_events[j].run_id = rw_calls
                /\ rw_events[k].run_id = rw_calls
         /\ wr_status[rw_calls] # Absent
         /\ rw_req.template =>
              \E i \in WorkflowEventsCalled("retrieve_global_workflows") :
                  /\ rw_events[i].arg = "found"
                  /\ \A j \in WorkflowEventsCalled("setup_workflow_run") : i < j

\* the second request names no global workflow and has failed; the run of
\* the first request is there, the second has none
C24_Witness ==
    /\ InvalidTemplate
    /\ rw_pc = "done"
    /\ rw_response = 404
    /\ rw_calls = 2
    /\ wr_status[1] = "created"
    /\ wr_status[2] = Absent
    /\ Len(starts) = 1

(* ---------------------------- concurrency properties ------------------- *)
\* C25: while cancel_workflow_run(P) runs beside the executor, a direct
\* child of P that has reached a terminal status is not overwritten by the
\* call: no step of the call changes the status of a child that is terminal.
C25_TerminalChildNotOverwritten ==
    [][\A c \in Callers, r \in RunIds :
         (pc[c] = "loop" /\ wr_parent[r] = target[c] /\ wr_status[r] \in TerminalStatuses)
             => wr_status'[r] = wr_status[r]]_vars

\* C28: when cancel_workflow_run(P) has returned, every direct child of P
\* is in a terminal status, whatever the executor has created or moved
\* while the call ran.
C28_ChildrenTerminalAtReturn ==
    \A c \in Callers :
        Returned(c) => \A r \in DirectChildren(target[c]) : wr_status[r] \in TerminalStatuses

\* the statuses one cancel_workflow_run(id) alone leaves behind when it
\* starts from the statuses st
SingleInvocation(st, id) ==
    [r \in RunIds |->
        IF r = id \/ (wr_parent[r] = id /\ st[r] \in NonTerminalStatuses)
        THEN "canceled" ELSE st[r]]

AllAnswered == \A c \in Callers : Arrived(c) => pc[c] = "done"

\* C26: cancel_workflow_run invocations on one target that run together, in
\* any interleaving of their awaits, leave the statuses a single invocation
\* leaves, and each invocation that returns has fired exactly one webhook for
\* the target, after its own status writes.
C26_ConcurrentCancelsAsOne ==
    /\ \A c \in Callers :
         Returned(c) =>
            /\ Cardinality(WebhooksOf(events[c])) = 1
            /\ events[c][Len(events[c])].kind = "webhook"
            /\ events[c][Len(events[c])].id = target[c]
            /\ \E i \in WritesOf(events[c]) : events[c][i].id = target[c]
    /\ AllAnswered =>
         \A c \in Callers :
            Returned(c) => wr_status = SingleInvocation(at_call[c], target[c])

\* two requests for one run were in flight together and both wrote the same
\* child, which was not terminal when either of them read it
C26_Witness ==
    /\ Returned(1) /\ Returned(2) /\ target[1] = target[2]
    /\ \E r \in DirectChildren(target[1]) :
         /\ at_call[1][r] \in NonTerminalStatuses
         /\ \E i \in WritesOf(events[1]) : events[1][i].id = r
         /\ \E i \in WritesOf(events[2]) : events[2][i].id = r

(* ---------------------------- frame properties ------------------------- *)
\* C27: a step of cancel_workflow_run or cancel_task creates and deletes no
\* record, leaves the blocks and thoughts as they are, and changes no field
\* of a run or task but the status of the target and, for a workflow run,
\* of the direct children of the target.
C27_OnlyStatusesMutated ==
    [][(~Quiet \/ ~Quiet') =>
         /\ \A r \in RunIds : (wr_status'[r] = Absent) <=> (wr_status[r] = Absent)
         /\ \A t \in TaskIds : (task_status'[t] = Absent) <=> (task_status[t] = Absent)
         /\ wr_parent' = wr_parent /\ wr_org' = wr_org
         /\ task_org' = task_org /\ task_steps' = task_steps
         /\ tl_blocks' = tl_blocks /\ tl_thoughts' = tl_thoughts
         /\ tl_task_v2' = tl_task_v2 /\ tl_entries' = tl_entries
         /\ \A r \in RunIds :
              wr_status'[r] # wr_status[r] =>
                 /\ wr_status'[r] = "canceled"
                 /\ r = target[1] \/ wr_parent[r] = target[1]
         /\ \A t \in TaskIds :
              task_status'[t] # task_status[t] =>
                 task_status'[t] = "canceled" /\ t = ttarget]_vars

\* a run with a block and a live child has been canceled, child included
C27_Witness ==
    /\ Returned(1)
    /\ tl_blocks[target[1]] # <<>>
    /\ \E r \in DirectChildren(target[1]) :
         \E i \in WritesOf(events[1]) : events[1][i].id = r

(* ---------------------------- failing write properties ----------------- *)
WriteFailed(c) == pc[c] = "done" /\ response[c] = 500

\* C29: when the mark-canceled write of a child raises, the request stops
\* there: the children handled before it keep what the loop did to them (a
\* non-terminal one stays canceled), the child whose write raised, the
\* children after it and the target keep the status they had, and no webhook
\* is fired.
C29_FailedWriteStopsTheCall ==
    \A c \in Callers :
        WriteFailed(c) =>
            /\ WebhooksOf(events[c]) = {}
            /\ wr_status[target[c]] = at_call[c][target[c]]
            /\ \A i \in DOMAIN child_workflow_runs[c] :
                 LET child == child_workflow_runs[c][i] IN
                    IF i < idx[c] /\ child.status \in NonTerminalStatuses
                    THEN wr_status[child.workflow_run_id] = "canceled"
                    ELSE wr_status[child.workflow_run_id] = child.status
            /\ \A i \in WritesOf(events[c]) :
                 \E j \in 1..(idx[c] - 1) :
                    events[c][i].id = child_workflow_runs[c][j].workflow_run_id

\* the write of the second child raised after the first child was canceled
C29_Witness ==
    /\ WriteFailed(1)
    /\ idx[1] = 2
    /\ at_call[1][child_workflow_runs[1][1].workflow_run_id] \in NonTerminalStatuses
    /\ wr_status[child_workflow_runs[1][1].workflow_run_id] = "canceled"
    /\ wr_status[target[1]] \in NonTerminalStatuses

(* ---------------------------- webhook payload -------------------------- *)
\* C30: the record a cancel handler hands to its webhook carries status
\* canceled, for cancel_workflow_run as for cancel_task: the notification
\* shows the state after the cancel write.
C30_WebhookRecordIsCanceled ==
    /\ \A c \in Callers :
         \A i \in WebhooksOf(events[c]) : events[c][i].status = "canceled"
    /\ \A i \in DOMAIN tevents :
         tevents[i].kind = "webhook" => tevents[i].status = "canceled"

====
